---------------------------- MODULE Spec2Model ----------------------------
(***************************************************************************)
(* Locator self-healing: the healing engine (healingEngine.ts), the        *)
(* resolution retry wrapper (selfHealingWrapper.ts, in its two source      *)
(* variants), the scoring algorithm and the suggestion store.              *)
(*                                                                         *)
(* Strings that the code inspects character by character (error messages)  *)
(* are sequences of one-character strings; strings that the code only      *)
(* concatenates or compares (locators, strategy names) are TLA+ strings.   *)
(***************************************************************************)
EXTENDS Integers, Sequences, FiniteSets, TLC

(***************************************************************************)
(* Bounds of the model.                                                    *)
(***************************************************************************)
\* longest candidate list handed to deduplicateCandidates in SpecDedup
MaxLen == 3
\* longest scored list handed to the mode policy in SpecPolicy
MaxScored == 2
\* most candidates one strategy evaluator returns in the pipeline
MaxPerStrategy == 1

\* calls of attemptHealing on one engine
MaxAttempts == 2
\* calls of storeSuggestion on one store, and how many of them may meet a
\* file-system call that throws
MaxStoreCalls == 102
MaxWriteFailures == 1
\* records in a storage file that is read, and calls of storeSuggestion on it
MaxFileRecords == 3
MaxFileCalls == 2
\* lines of a test file that is modified once, and how many of them hold
\* the locator in some form
MaxFileLines == 5
MaxLocatorLines == 2
\* lines of a test file that is modified repeatedly, modifications of it,
\* and milliseconds that pass meanwhile
MaxBackupLines == 2
MaxModifications == 2
MaxClock == 2

\* calls of SelfHealingWrapper.configure on one wrapper
MaxConfigures == 2

\* processes that share one storage file, and calls of storeSuggestion each
\* of them makes
NumProcesses == 2
MaxProcCalls == 2

\* values of HealingConfig.maxRetries, and operations called on one locator
MaxRetries == 3
MaxOperations == 2

(***************************************************************************)
(* Program constants.                                                      *)
(***************************************************************************)
DefaultThreshold == 90
MaxSuggestions == 100
SimilarityWeight == 30
VisibilityWeight == 20
PositionWeight == 15

Null == "null"

(***************************************************************************)
(* Small helpers.                                                          *)
(***************************************************************************)
Min(a, b) == IF a <= b THEN a ELSE b

Max(a, b) == IF a >= b THEN a ELSE b

Range(s) == {s[i] : i \in DOMAIN s}

\* all sequences over S of length at most n
SeqsUpTo(S, n) == UNION {[1..k -> S] : k \in 0..n}

RECURSIVE Flat(_)
\* Array.prototype.flat() of an array of arrays
Flat(groups) ==
    IF groups = <<>> THEN <<>> ELSE Head(groups) \o Flat(Tail(groups))

(***************************************************************************)
(* Characters and String.prototype.toLowerCase / includes.                 *)
(***************************************************************************)
LowerOf ==
    [c \in {"E", "N", "F", "T", "P", "S"} |->
        CASE c = "E" -> "e" [] c = "N" -> "n" [] c = "F" -> "f"
          [] c = "T" -> "t" [] c = "P" -> "p" [] c = "S" -> "s"]

ToLowerCase(s) ==
    [i \in DOMAIN s |-> IF s[i] \in DOMAIN LowerOf THEN LowerOf[s[i]] ELSE s[i]]

Includes(s, pattern) ==
    \E i \in 1..(Len(s) - Len(pattern) + 1) :
        SubSeq(s, i, i + Len(pattern) - 1) = pattern

\* the selectorErrors array of shouldAttemptHealing
SelectorErrors ==
    << <<"e","l","e","m","e","n","t"," ","n","o","t"," ","f","o","u","n","d">>,
       <<"n","o"," ","s","u","c","h"," ","e","l","e","m","e","n","t">>,
       <<"e","l","e","m","e","n","t"," ","i","s"," ","n","o","t"," ","a","t","t","a","c","h","e","d">>,
       <<"t","i","m","e","o","u","t">>,
       <<"s","e","l","e","c","t","o","r"," ","r","e","s","o","l","v","e","d"," ","t","o"," ","m","u","l","t","i","p","l","e"," ","e","l","e","m","e","n","t","s">>,
       <<"s","t","r","i","c","t"," ","m","o","d","e"," ","v","i","o","l","a","t","i","o","n">>,
       <<"w","a","i","t","i","n","g"," ","f","o","r"," ","s","e","l","e","c","t","o","r">> >>

\* error messages the caller's action may fail with; NoMessage is an error
\* whose message is undefined (error?.message || '' yields the empty string)
MsgElementNotFound ==
    <<"E","l","e","m","e","n","t"," ","n","o","t"," ","f","o","u","n","d">>

MsgProtocol ==
    <<"P","r","o","t","o","c","o","l"," ","e","r","r","o","r">>

MsgTargetClosed ==
    <<"T","a","r","g","e","t"," ","c","l","o","s","e","d">>

NoMessage == <<>>

Messages == {MsgElementNotFound, MsgProtocol, MsgTargetClosed, NoMessage}

\* a classification that sends every error to the engine
ShouldAttemptHealing_AlwaysHeal(message) == TRUE

\* SelfHealingWrapper.shouldAttemptHealing
ShouldAttemptHealing(message) ==
    LET errorMessage == message
    IN  \E k \in DOMAIN SelectorErrors :
            Includes(ToLowerCase(errorMessage), ToLowerCase(SelectorErrors[k]))


(***************************************************************************)
(* Data of the healing engine.                                             *)
(***************************************************************************)
Modes == {"auto", "assisted", "suggestion-only"}

\* the strategy names a configuration may list (SelfHealingConfig.strategies)
StrategyNames == {"semantic", "text", "visual", "structural", "attribute"}

\* candidate locators the strategies derive from the document; the semantic
\* strategy's locators contain colons
Locators == {"page.getByRole('button', { name: 'Submit' })",
             "[data-testid=\"submit-btn\"]"}

OriginalSelector == "#submit"

\* the document of the runs holds two buttons named Submit, one of them with
\* data-testid="submit-btn": the number of elements a locator matches
MatchCount(locator) ==
    IF locator = "[data-testid=\"submit-btn\"]" THEN 1 ELSE 2

\* a test identifier is optional: testName?: string; its text is a sequence
\* of path tokens
NoTest == [defined |-> FALSE, tokens |-> <<>>]

TestNames ==
    {NoTest,
     [defined |-> TRUE, tokens |-> <<"checkout", ".spec", ".ts">>],
     [defined |-> TRUE, tokens |-> <<"home", ".visual", ".spec", ".ts">>]}

\* a RegExp: a literal pattern, here a sequence of path tokens, that may be
\* anchored at the end and may carry the g flag; positions count tokens
\* /\.visual\.spec\.ts$/ of the documentation
VisualSpecRegex ==
    [tokens |-> <<".visual", ".spec", ".ts">>, anchorEnd |-> TRUE, global |-> FALSE]

\* /\.visual\.spec\.ts$/g
GlobalVisualSpecRegex ==
    [tokens |-> <<".visual", ".spec", ".ts">>, anchorEnd |-> TRUE, global |-> TRUE]

\* /checkout/g
GlobalCheckoutRegex ==
    [tokens |-> <<"checkout">>, anchorEnd |-> FALSE, global |-> TRUE]

\* the positions after from at which the pattern matches the text
MatchStarts(regex, text, from) ==
    {i \in (from + 1)..(Len(text) - Len(regex.tokens) + 1) :
        /\ SubSeq(text, i, i + Len(regex.tokens) - 1) = regex.tokens
        /\ regex.anchorEnd => i + Len(regex.tokens) - 1 = Len(text)}

\* RegExp.prototype.test: a pattern with the g flag searches from its
\* lastIndex and leaves lastIndex behind the match, or at 0 when the search
\* fails; a pattern without it searches from 0 and keeps lastIndex
RegexTest(regex, lastIndex, text) ==
    LET starts == MatchStarts(regex, text, IF regex.global THEN lastIndex ELSE 0)
        first == CHOOSE i \in starts : \A j \in starts : i <= j
    IN  IF starts = {}
        THEN [matched |-> FALSE,
              lastIndex |-> IF regex.global THEN 0 ELSE lastIndex]
        ELSE [matched |-> TRUE,
              lastIndex |-> IF regex.global THEN first + Len(regex.tokens) - 1
                            ELSE lastIndex]

\* absent optional number (HealingResult.score?: number)
NoScore == -1

\* HealingResult; an absent optional field is Null, NoScore, <<>> or FALSE
Result(success, appliedLocator, score, reason, candidates, applied) ==
    [success |-> success, appliedLocator |-> appliedLocator, score |-> score,
     strategy |-> Null, reason |-> reason, candidates |-> candidates,
     applied |-> applied]

\* HealingEngine.initializeStrategies
InitializeStrategies(strategyNames) ==
    SelectSeq(strategyNames,
              LAMBDA name : name \in {"semantic", "text", "structural", "attribute"})

\* HealingEngine constructor; lastIndex is the lastIndex of each RegExp of
\* excludeTests, 0 in a pattern that has not been used
NewHealingEngine(config) ==
    [config |-> config, strategies |-> InitializeStrategies(config.strategies),
     lastIndex |-> [k \in DOMAIN config.excludeTests |-> 0]]

RECURSIVE ExcludeFrom(_, _, _, _)
\* for (const regex of this.config.excludeTests) from the k-th pattern on:
\* the loop returns at the first pattern whose test succeeds
ExcludeFrom(regexes, lastIndex, text, k) ==
    IF k > Len(regexes)
    THEN [excluded |-> FALSE, lastIndex |-> lastIndex]
    ELSE LET r == RegexTest(regexes[k], lastIndex[k], text)
             after == [lastIndex EXCEPT ![k] = r.lastIndex]
         IN  IF r.matched
             THEN [excluded |-> TRUE, lastIndex |-> after]
             ELSE ExcludeFrom(regexes, after, text, k + 1)

\* the exclusion check of attemptHealing: skipped without a test name
IsExcluded(anEngine, testName) ==
    IF testName.defined /\ testName.tokens # <<>>
    THEN ExcludeFrom(anEngine.config.excludeTests, anEngine.lastIndex,
                     testName.tokens, 1)
    ELSE [excluded |-> FALSE, lastIndex |-> anEngine.lastIndex]

(***************************************************************************)
(* deduplicateCandidates                                                   *)
(***************************************************************************)
\* a key that leaves out the strategy
DedupKey_LocatorOnly(candidate) == candidate.locator

\* the key template `${candidate.locator}:${candidate.strategy}`
DedupKey(candidate) == candidate.locator \o ":" \o candidate.strategy

RECURSIVE DedupFrom(_, _)
DedupFrom(candidates, seen) ==
    IF candidates = <<>> THEN <<>>
    ELSE LET key == DedupKey(Head(candidates))
         IN  IF key \in seen
             THEN DedupFrom(Tail(candidates), seen)
             ELSE <<Head(candidates)>> \o DedupFrom(Tail(candidates), seen \cup {key})

\* HealingEngine.deduplicateCandidates
DeduplicateCandidates(candidates) == DedupFrom(candidates, {})

(***************************************************************************)
(* ScoringAlgorithm                                                        *)
(***************************************************************************)
GetStrategyWeight(strategy) ==
    CASE strategy = "semantic" -> 40
      [] strategy = "text" -> 25
      [] strategy = "structural" -> 20
      [] strategy = "attribute" -> 15
      [] OTHER -> 10

GetStrategyScore(strategy) ==
    CASE strategy = "semantic" -> 90
      [] strategy = "text" -> 80
      [] strategy = "structural" -> 70
      [] strategy = "attribute" -> 60
      [] OTHER -> 50

\* assessElementVisibility: 70 for visible plus 30 for enabled, 0 when the
\* element cannot be reached
AssessElementVisibility(signals) ==
    IF signals.accessible
    THEN (IF signals.visible THEN 70 ELSE 0) + (IF signals.enabled THEN 30 ELSE 0)
    ELSE 0

\* ScoringAlgorithm.scoreCandidate. signals.similarity is the result of
\* calculateLocatorSimilarity and signals.position that of
\* calculatePositionSimilarity, both in 0..100. The quotient is exact
\* wherever it is not clamped: it is rounded down only below 100.
ScoreCandidate(candidate, signals) ==
    LET strategyWeight == GetStrategyWeight(candidate.strategy)
        s1 == GetStrategyScore(candidate.strategy) * strategyWeight
        s2 == s1 + signals.similarity * SimilarityWeight
        s3 == s2 + AssessElementVisibility(signals) * VisibilityWeight
        score == IF signals.hasPrevious
                 THEN s3 + signals.position * PositionWeight ELSE s3
        w3 == strategyWeight + SimilarityWeight + VisibilityWeight
        weightSum == IF signals.hasPrevious THEN w3 + PositionWeight ELSE w3
    IN  IF weightSum > 0
        THEN Min(100, Max(0, (score * 100) \div weightSum))
        ELSE 0

\* what the document lets the scoring algorithm observe of one candidate
SignalSet ==
    {s \in [similarity : {0, 100}, accessible : BOOLEAN, visible : BOOLEAN,
            enabled : BOOLEAN, hasPrevious : BOOLEAN, position : {0}] :
        /\ ~s.accessible => ~s.visible /\ ~s.enabled
        /\ s.visible <=> s.enabled}

RECURSIVE InsertByScore(_, _)
\* position of c in a list already sorted by descending score, after the
\* entries that do not compare after it (Array.prototype.sort is stable)
InsertByScore(sorted, c) ==
    IF sorted = <<>> THEN <<c>>
    ELSE IF Head(sorted).score >= c.score
         THEN <<Head(sorted)>> \o InsertByScore(Tail(sorted), c)
         ELSE <<c>> \o sorted

RECURSIVE SortByScoreFrom(_, _)
SortByScoreFrom(rest, sorted) ==
    IF rest = <<>> THEN sorted
    ELSE SortByScoreFrom(Tail(rest), InsertByScore(sorted, Head(rest)))

\* scoredCandidates.sort((a, b) => b.score - a.score)
SortByScore(candidates) == SortByScoreFrom(candidates, <<>>)

(***************************************************************************)
(* applyHealing, logHealingAttempt, SuggestionStore.storeSuggestion        *)
(***************************************************************************)
\* this.config.autoApplyThreshold || 90: a threshold of 0 is falsy
EffectiveThreshold(threshold) ==
    IF threshold = 0 THEN DefaultThreshold ELSE threshold

\* a policy that applies the auto rule in every mode
ApplyHealing_IgnoresMode(config, candidates) ==
    IF candidates = <<>>
    THEN Result(FALSE, Null, NoScore, "No candidates found", candidates, FALSE)
    ELSE LET best == candidates[1]
         IN  IF best.score >= EffectiveThreshold(config.autoApplyThreshold)
             THEN Result(TRUE, best.locator, best.score, Null, candidates, TRUE)
             ELSE Result(FALSE, Null, NoScore,
                         "Best candidate score below auto-apply threshold",
                         candidates, FALSE)

\* HealingEngine.applyHealing; the reasons are the message texts without
\* their interpolated numbers
ApplyHealing(config, candidates) ==
    IF candidates = <<>>
    THEN Result(FALSE, Null, NoScore, "No candidates found", candidates, FALSE)
    ELSE LET best == candidates[1]
         IN  CASE config.mode = "auto" ->
                    IF best.score >= EffectiveThreshold(config.autoApplyThreshold)
                    THEN Result(TRUE, best.locator, best.score, Null, candidates, TRUE)
                    ELSE Result(FALSE, Null, NoScore,
                                "Best candidate score below auto-apply threshold",
                                candidates, FALSE)
               [] config.mode = "assisted" ->
                    Result(TRUE, best.locator, best.score, Null, candidates, FALSE)
               [] OTHER ->
                    Result(FALSE, Null, NoScore,
                           "Suggestion-only mode, no automatic application",
                           candidates, FALSE)

\* StoredSuggestion without its timestamp
Suggestion(result, applied, testName, originalLocator) ==
    [result |-> result, applied |-> applied, testName |-> testName,
     originalLocator |-> originalLocator]

\* a store that prunes with slice(0, 100): the newest records are dropped
LastN_KeepsOldest(s, n) == IF Len(s) > n THEN SubSeq(s, 1, n) ELSE s

\* suggestions.slice(-100) of a list longer than 100
LastN(s, n) == IF Len(s) > n THEN SubSeq(s, Len(s) - n + 1, Len(s)) ELSE s

\* SuggestionStore.storeSuggestion: file is the parsed content of the
\* storage file (<<>> when it does not exist); writeOk is FALSE when a
\* file-system call throws, which the method swallows
StoreSuggestion(file, suggestion, writeOk) ==
    IF writeOk THEN LastN(Append(file, suggestion), MaxSuggestions) ELSE file

\* what JSON.parse(fs.readFileSync(file)) makes of the storage file: an
\* array (the empty one stands for a missing file too, which the methods
\* read as []), a syntax error, or a value that is no array, such as {}
FileKinds == {"array", "corrupt", "non-array"}

\* SuggestionStore.storeSuggestion on a file of any kind: JSON.parse of a
\* corrupt file and push on a value that is no array throw inside the try,
\* and the catch leaves the file as it is
StoreSuggestionOn(kind, file, suggestion, writeOk) ==
    IF kind = "array" THEN StoreSuggestion(file, suggestion, writeOk) ELSE file

\* SuggestionStore.loadSuggestions: [] for a missing file and when reading
\* or parsing throws, otherwise whatever JSON.parse returns
LoadSuggestions(kind, file) ==
    CASE kind = "array" -> [threw |-> FALSE, kind |-> "list", value |-> file]
      [] kind = "corrupt" -> [threw |-> FALSE, kind |-> "list", value |-> <<>>]
      [] OTHER -> [threw |-> FALSE, kind |-> "non-array", value |-> <<>>]

Reverse(s) == [i \in DOMAIN s |-> s[Len(s) + 1 - i]]

\* Array.prototype.slice(-limit): the last limit entries; slice(-0) is the
\* whole array
SliceLast(s, limit) ==
    IF limit = 0 \/ limit >= Len(s) THEN s
    ELSE SubSeq(s, Len(s) - limit + 1, Len(s))

\* SuggestionStore.getRecentSuggestions: slice is no function of a value
\* that is no array
GetRecentSuggestions(kind, file, limit) ==
    LET loaded == LoadSuggestions(kind, file)
    IN  IF loaded.kind = "list"
        THEN [threw |-> FALSE, kind |-> "list",
              value |-> Reverse(SliceLast(loaded.value, limit))]
        ELSE [threw |-> TRUE, kind |-> "none", value |-> <<>>]

RECURSIVE Sum(_)
\* scores.reduce((sum, score) => sum + score, 0)
Sum(s) == IF s = <<>> THEN 0 ELSE Head(s) + Sum(Tail(s))

\* Math.round of the quotient num / den of naturals, den > 0
RoundDiv(num, den) == (2 * num + den) \div (2 * den)

\* s.result.score || 0
ScoreOrZero(suggestion) ==
    IF suggestion.result.score = NoScore THEN 0 ELSE suggestion.result.score

\* SuggestionStore.getStatistics; averageScore, which the method rounds to
\* two decimals, is given in hundredths
GetStatistics(kind, file) ==
    LET loaded == LoadSuggestions(kind, file)
        suggestions == loaded.value
        successful == SelectSeq(suggestions, LAMBDA s : s.result.success)
        applied == SelectSeq(suggestions, LAMBDA s : s.applied)
        scores == SelectSeq([i \in DOMAIN successful |-> ScoreOrZero(successful[i])],
                            LAMBDA score : score > 0)
    IN  IF loaded.kind = "list"
        THEN [threw |-> FALSE, kind |-> "stats",
              value |-> [total |-> Len(suggestions),
                         successful |-> Len(successful),
                         applied |-> Len(applied),
                         averageScore |-> IF Len(scores) > 0
                                          THEN RoundDiv(Sum(scores) * 100, Len(scores))
                                          ELSE 0]]
        ELSE [threw |-> TRUE, kind |-> "none", value |-> <<>>]

\* the record HealingEngine.logHealingAttempt hands to the store
LoggedSuggestion(result) == Suggestion(result, result.applied, NoTest, Null)


(***************************************************************************)
(* Configurations and what the environment may answer.                     *)
(***************************************************************************)
Thresholds == {0, 85}

StrategyLists == {<<"semantic", "attribute">>, <<"text", "visual">>}

\* SelfHealingConfig; console output (notifyOnHeal) and the storage path
\* are not modelled: every store of a run uses the same file
Configs ==
    [enabled : BOOLEAN, mode : Modes, autoApplyThreshold : Thresholds,
     strategies : StrategyLists, excludeTests : {<<>>, <<VisualSpecRegex>>}]

NoConfig ==
    [enabled |-> FALSE, mode |-> "suggestion-only",
     autoApplyThreshold |-> DefaultThreshold, strategies |-> <<>>,
     excludeTests |-> <<>>]

NoEngine == [config |-> NoConfig, strategies |-> <<>>, lastIndex |-> <<>>]

\* the locators one evaluator's queries yield, in the order it pushes them
StrategyOutputs == SeqsUpTo(Locators, MaxPerStrategy)

\* captureSnapshot: complete, without screenshot, or the fallback record
SnapshotOutcomes == {"full", "no-screenshot", "unknown"}

\* frameSelectors._performQuery(healedLocator)
QueryOutcomes == {"element", "null", "throws"}

\* the two sources of SelfHealingWrapper in the repository
WrapperSources == {"part_004", "selfHealingWrapper.ts"}

NoError == [id |-> "none", message |-> <<>>]

NoResult == Result(FALSE, Null, NoScore, Null, <<>>, FALSE)

NoOutcome == [kind |-> "none", value |-> Null, error |-> NoError]

NoAnnotation == [success |-> FALSE, healedLocator |-> Null, score |-> NoScore,
                 strategy |-> Null]

NoTrace == [snapshots |-> 0, invoked |-> <<>>, scoreCalls |-> 0, storeCalls |-> 0]

VARIABLES
    variant,        \* which source of SelfHealingWrapper is built
    owner,          \* "none", "wrapper" (configure) or "direct" (new HealingEngine)
    wConfig,        \* SelfHealingWrapper.config
    engine,         \* the HealingEngine instance
    started,        \* a resolution has been started
    pc,             \* position of wrapSelectorResolution
    testName,       \* context.testName of the call
    originalError,  \* the error caught from action()
    healingResult,  \* the wrapper's healingResult
    outcome,        \* how wrapSelectorResolution settled
    annotation,     \* originalError.selfHealingResult
    queried,        \* how _performQuery settled
    actionCalls, healCalls, validateCalls,
    epc,            \* position of HealingEngine.attemptHealing
    attempts,       \* calls of attemptHealing so far
    caller,         \* who awaits attemptHealing
    eTest,          \* context.testName of the attempt
    snapshot,       \* outcome of captureSnapshot
    pending,        \* strategies whose findCandidates has not settled
    groups,         \* candidateGroups
    failedInside,   \* strategies that hit an internal error
    unique,         \* uniqueCandidates
    nextIdx,        \* loop position of scoreCandidates
    scored,         \* scoredCandidates
    skipped,        \* indices of candidates that could not be scored
    eResult,        \* the HealingResult of the attempt
    eThrew,         \* attemptHealing rejected
    trace,          \* calls the attempt made
    store,          \* parsed content of the storage file
    events,         \* page._selfHealingEvents
    log,            \* per storeSuggestion call of a store's user: the write succeeded
    answer,         \* what the last read of the store returned
    fileKind,       \* what JSON.parse makes of the storage file
    disk,           \* the test file and its backup files
    clock,          \* what Date.now() returns
    context,        \* HealingContext: the original locator and the page
    manager,        \* globalHealingManager of the client
    healingLocator, \* a SelfHealingLocator
    withHealing,    \* the call of SelfHealingLocator._withHealing
    live,           \* the fields of a SelfHealingWrapper that configure replaces
    flight,         \* a wrapSelectorResolution call and what it has read
    procs           \* the processes that share one storage file

wrapperVars == <<variant, owner, wConfig, engine>>

callVars == <<started, pc, testName, originalError, healingResult, outcome,
              annotation, queried, actionCalls, healCalls, validateCalls>>

engineVars == <<epc, attempts, caller, eTest, snapshot, pending, groups, failedInside,
                unique, nextIdx, scored, skipped, eResult, eThrew, trace>>

\* state of the store's direct use, which the wrapper and the engine leave alone
codeVars == <<disk, clock>>

\* the client-side locator and the global HealingManager
clientVars == <<manager, healingLocator, withHealing>>

\* a wrapper that is configured again while a resolution is in flight
liveVars == <<live, flight>>

otherVars == <<log, answer, fileKind, codeVars, context, clientVars, liveVars,
               procs>>

vars == <<wrapperVars, callVars, engineVars, store, events, otherVars>>

\* no attempt, no page
NoContext == [originalLocator |-> <<>>, document |-> <<>>]

\* no test file, no backup file
NoDisk == [exists |-> FALSE, content |-> <<>>, backups |-> <<>>]

NoAnswer == [op |-> "none", threw |-> FALSE, kind |-> "none", value |-> <<>>]

(***************************************************************************)
(* Data of the client: HealingConfig, HealingManager, SelfHealingLocator.  *)
(***************************************************************************)
\* DEFAULT_HEALING_CONFIG.maxRetries
DefaultMaxRetries == 3

\* DEFAULT_HEALING_CONFIG; of HealingConfig the fields that _withHealing and
\* healLocator branch on
DefaultHealingConfig == [enabled |-> TRUE, maxRetries |-> DefaultMaxRetries]

\* Partial<HealingConfig>: has holds the keys the object carries
PartialConfigs ==
    [has : SUBSET {"enabled", "maxRetries"}, enabled : BOOLEAN,
     maxRetries : 0..MaxRetries]

\* { ...base, ...config }
MergeConfig(base, config) ==
    [enabled |-> IF "enabled" \in config.has THEN config.enabled ELSE base.enabled,
     maxRetries |-> IF "maxRetries" \in config.has THEN config.maxRetries
                    ELSE base.maxRetries]

\* let globalHealingManager: HealingManager | null = null; given records the
\* keys a caller has passed to new HealingManager or updateConfig
NoManager ==
    [created |-> FALSE, given |-> {}, config |-> DefaultHealingConfig,
     attempts |-> <<>>]

\* new SelfHealingLocator(frame, selector)
NewLocator(selector) ==
    [originalSelector |-> selector, selector |-> selector, isHealed |-> FALSE,
     healingAttempts |-> <<>>]

NoClientError == [message |-> <<>>, timeoutError |-> FALSE, thrown |-> FALSE]

\* no call of _withHealing has been made
NoCall ==
    [pc |-> "idle", config |-> DefaultHealingConfig, attempts |-> 0,
     lastError |-> NoClientError, executions |-> 0, heals |-> 0,
     firstFailed |-> FALSE, outcome |-> "none", calls |-> 0]

InitClient ==
    /\ manager = NoManager
    /\ healingLocator = NewLocator(OriginalSelector)
    /\ withHealing = NoCall

\* SelfHealingConfig with the fields a resolution reads from the wrapper
LiveConfigs ==
    [enabled : BOOLEAN, mode : {"auto"}, autoApplyThreshold : {50, 95},
     notifyOnHeal : BOOLEAN, storageFile : {"a.json", "b.json"}]

\* private config?: SelfHealingConfig before configure; the optional chains
\* this.config?.autoApplyThreshold || 90 and this.config?.notifyOnHeal read
\* it as these values
UnsetConfig ==
    [enabled |-> FALSE, mode |-> "auto", autoApplyThreshold |-> DefaultThreshold,
     notifyOnHeal |-> FALSE, storageFile |-> ""]

\* the fields configure assigns: a HealingEngine is known by the
\* configuration it was built with, a SuggestionStore by its file; exists is
\* FALSE for null
WrapperFields(config, configures) ==
    [config |-> config,
     healingEngine |-> [exists |-> config.enabled, config |-> config],
     suggestionStore |-> [exists |-> config.enabled, storageFile |-> config.storageFile],
     configures |-> configures]

\* no call of wrapSelectorResolution
NoFlight ==
    [pc |-> "idle", start |-> UnsetConfig, read |-> {}, engine |-> UnsetConfig,
     engineExists |-> FALSE, threshold |-> DefaultThreshold,
     storageFile |-> "", notify |-> FALSE, usable |-> FALSE,
     overtaken |-> FALSE, outcome |-> "none"]

\* a wrapper that has not been configured, no resolution
InitLive ==
    /\ live = WrapperFields(UnsetConfig, 0)
    /\ flight = NoFlight

InitProcs == procs = <<>>

InitOther ==
    /\ log = <<>>
    /\ answer = NoAnswer
    /\ fileKind = "array"
    /\ disk = NoDisk
    /\ clock = 1
    /\ context = NoContext
    /\ InitClient
    /\ InitLive
    /\ InitProcs

InitWrapper ==
    /\ variant = "none"
    /\ owner = "none"
    /\ wConfig = NoConfig
    /\ engine = NoEngine

InitCall ==
    /\ started = FALSE
    /\ pc = "idle"
    /\ testName = NoTest
    /\ originalError = NoError
    /\ healingResult = NoResult
    /\ outcome = NoOutcome
    /\ annotation = NoAnnotation
    /\ queried = "none"
    /\ actionCalls = 0
    /\ healCalls = 0
    /\ validateCalls = 0

InitAttempt ==
    /\ attempts = 0
    /\ caller = "none"
    /\ eTest = NoTest
    /\ snapshot = "none"
    /\ pending = {}
    /\ groups = <<>>
    /\ failedInside = {}
    /\ unique = <<>>
    /\ nextIdx = 1
    /\ scored = <<>>
    /\ skipped = {}
    /\ eResult = NoResult
    /\ eThrew = FALSE
    /\ trace = NoTrace

\* a wrapper that has been constructed and not yet configured, no engine,
\* no storage file
Init ==
    /\ InitWrapper
    /\ InitCall
    /\ epc = "idle"
    /\ InitAttempt
    /\ store = <<>>
    /\ events = <<>>
    /\ InitOther

(***************************************************************************)
(* Construction.                                                           *)
(***************************************************************************)
\* new SelfHealingWrapper(context) of one of the two sources, then
\* SelfHealingWrapper.configure; a run is configured once, before its first
\* resolution
Configure(source, config) ==
    /\ owner = "none"
    /\ ~started
    /\ variant' = source
    /\ owner' = "wrapper"
    /\ wConfig' = config
    /\ engine' = IF config.enabled THEN NewHealingEngine(config) ELSE NoEngine
    /\ UNCHANGED <<callVars, engineVars, store, events>>
    /\ UNCHANGED otherVars

\* this.healingEngine of the wrapper is non-null
HasEngine == owner = "wrapper" /\ wConfig.enabled

\* SelfHealingWrapper.isEnabled: this.healingEngine?.isEnabled() || false
IsEnabled == HasEngine /\ engine.config.enabled


(***************************************************************************)
(* HealingEngine.attemptHealing, one action per await.                     *)
(***************************************************************************)
restOfAttempt == <<snapshot, pending, groups, failedInside, unique, nextIdx,
                   scored, skipped>>

\* the attempt settles with a result and no rejection
Returns(result) ==
    /\ epc' = "returned"
    /\ eResult' = result
    /\ eThrew' = FALSE

\* the attempt rejects: an exception leaves attemptHealing
Rejects ==
    /\ epc' = "returned"
    /\ eResult' = NoResult
    /\ eThrew' = TRUE

\* attemptHealing up to its first await: the enabled check, the exclusion
\* loop, then the call of captureSnapshot; the locals of the call are fresh
BeginAttempt(who, test) ==
    /\ attempts' = attempts + 1
    /\ caller' = who
    /\ eTest' = test
    /\ snapshot' = "none"
    /\ pending' = {}
    /\ groups' = <<>>
    /\ failedInside' = {}
    /\ unique' = <<>>
    /\ nextIdx' = 1
    /\ scored' = <<>>
    /\ skipped' = {}
    /\ IF ~engine.config.enabled
       THEN /\ Returns(Result(FALSE, Null, NoScore, "Self-healing is disabled",
                              <<>>, FALSE))
            /\ trace' = NoTrace
            /\ UNCHANGED engine
       ELSE LET check == IsExcluded(engine, test)
            IN  /\ engine' = [engine EXCEPT !.lastIndex = check.lastIndex]
                /\ IF check.excluded
                   THEN /\ Returns(Result(FALSE, Null, NoScore,
                                          "Test excluded from self-healing",
                                          <<>>, FALSE))
                        /\ trace' = NoTrace
                   ELSE /\ epc' = "snapshot"
                        /\ eResult' = NoResult
                        /\ eThrew' = FALSE
                        /\ trace' = [NoTrace EXCEPT !.snapshots = 1]

\* a caller that holds a HealingEngine calls attemptHealing, again once the
\* previous call has settled
DirectAttempt(test) ==
    /\ owner = "direct"
    /\ epc \in {"idle", "returned"}
    /\ attempts < MaxAttempts
    /\ BeginAttempt("direct", test)
    /\ UNCHANGED <<variant, owner, wConfig, callVars, store, events>>
    /\ UNCHANGED otherVars

\* captureSnapshot settles (it catches every failure of its own); then
\* this.strategies.map(s => s.findCandidates(healingContext)) starts every
\* evaluator and Promise.all awaits them
SnapshotSettles(how) ==
    /\ epc = "snapshot"
    /\ snapshot' = how
    /\ trace' = [trace EXCEPT !.invoked = engine.strategies]
    /\ groups' = [i \in DOMAIN engine.strategies |-> <<>>]
    /\ pending' = DOMAIN engine.strategies
    /\ epc' = IF engine.strategies = <<>> THEN "scoring" ELSE "strategies"
    /\ UNCHANGED <<wrapperVars, callVars, attempts, caller, eTest, failedInside, unique,
                   nextIdx, scored, skipped, eResult, eThrew, store, events>>
    /\ UNCHANGED otherVars

\* an evaluator without the try/catch around its body
FindCandidates_NoCatch(strategy, found, failsInside) ==
    [rejected |-> failsInside,
     candidates |-> [i \in DOMAIN found |-> [locator |-> found[i], strategy |-> strategy]]]

\* HealingStrategy.findCandidates of the semantic, text, structural and
\* attribute strategies: found is what the queries pushed before the body
\* ended or threw; the try/catch around the body swallows the error
FindCandidates(strategy, found, failsInside) ==
    [rejected |-> FALSE,
     candidates |-> [i \in DOMAIN found |-> [locator |-> found[i], strategy |-> strategy]]]

\* one evaluator settles; when the last one has, Promise.all resolves and
\* the groups are flattened and deduplicated
StrategySettles(i, found, failsInside) ==
    /\ epc = "strategies"
    /\ i \in pending
    /\ LET r == FindCandidates(engine.strategies[i], found, failsInside)
           g == [groups EXCEPT ![i] = r.candidates]
       IN  IF r.rejected
           THEN /\ Rejects
                /\ UNCHANGED <<groups, pending, unique, failedInside>>
           ELSE /\ groups' = g
                /\ pending' = pending \ {i}
                /\ failedInside' = IF failsInside THEN failedInside \cup {i}
                                   ELSE failedInside
                /\ IF pending = {i}
                   THEN /\ unique' = DeduplicateCandidates(Flat(g))
                        /\ epc' = "scoring"
                   ELSE UNCHANGED <<unique, epc>>
                /\ UNCHANGED <<eResult, eThrew>>
    /\ UNCHANGED <<wrapperVars, callVars, attempts, caller, eTest, snapshot, nextIdx,
                   scored, skipped, trace, store, events>>
    /\ UNCHANGED otherVars

\* one iteration of the loop of HealingEngine.scoreCandidates
ScoreStep(candidate, signals, throws) ==
    [rejected |-> FALSE,
     pushed |-> IF throws THEN <<>>
                ELSE <<[locator |-> candidate.locator, strategy |-> candidate.strategy,
                        score |-> ScoreCandidate(candidate, signals)]>>]

\* scoringAlgorithm.scoreCandidate settles for the next candidate
ScoreSettles(signals, throws) ==
    /\ epc = "scoring"
    /\ nextIdx <= Len(unique)
    /\ LET r == ScoreStep(unique[nextIdx], signals, throws)
       IN  IF r.rejected
           THEN /\ Rejects
                /\ UNCHANGED <<scored, skipped, nextIdx>>
           ELSE /\ scored' = scored \o r.pushed
                /\ skipped' = IF throws THEN skipped \cup {nextIdx} ELSE skipped
                /\ nextIdx' = nextIdx + 1
                /\ UNCHANGED <<epc, eResult, eThrew>>
    /\ trace' = [trace EXCEPT !.scoreCalls = @ + 1]
    /\ UNCHANGED <<wrapperVars, callVars, attempts, caller, eTest, snapshot, pending,
                   groups, failedInside, unique, store, events>>
    /\ UNCHANGED otherVars

\* after the loop: sort, applyHealing, logHealingAttempt, return
FinishAttempt(writeOk) ==
    /\ epc = "scoring"
    /\ nextIdx > Len(unique)
    /\ LET result == ApplyHealing(engine.config, SortByScore(scored))
       IN  /\ store' = StoreSuggestion(store, LoggedSuggestion(result), writeOk)
           /\ Returns(result)
    /\ trace' = [trace EXCEPT !.storeCalls = @ + 1]
    /\ UNCHANGED <<wrapperVars, callVars, attempts, caller, eTest, restOfAttempt, events>>
    /\ UNCHANGED otherVars


(***************************************************************************)
(* SelfHealingWrapper.wrapSelectorResolution, one action per await.        *)
(***************************************************************************)
Settle(kind, value, error) ==
    /\ pc' = "done"
    /\ outcome' = [kind |-> kind, value |-> value, error |-> error]

\* the caller starts a resolution: both branches begin with action()
Call(test) ==
    /\ owner \in {"none", "wrapper"}
    /\ ~started
    /\ pc = "idle"
    /\ started' = TRUE
    /\ testName' = test
    /\ actionCalls' = actionCalls + 1
    /\ pc' = "awaitAction"
    /\ UNCHANGED <<wrapperVars, originalError, healingResult, outcome,
                   annotation, queried, healCalls, validateCalls, engineVars,
                   store, events>>
    /\ UNCHANGED otherVars

\* action() resolves: its value is returned
ActionReturns ==
    /\ pc = "awaitAction"
    /\ Settle("return", "original-element", NoError)
    /\ UNCHANGED <<wrapperVars, started, testName, originalError,
                   healingResult, annotation, queried, actionCalls, healCalls,
                   validateCalls, engineVars, store, events>>
    /\ UNCHANGED otherVars

\* action() rejects with an error of the given message: without an enabled
\* engine, or for an error that shouldAttemptHealing refuses, it propagates;
\* otherwise the wrapper calls attemptHealing
ActionThrows(message) ==
    /\ pc = "awaitAction"
    /\ originalError' = [id |-> "original", message |-> message]
    /\ LET error == [id |-> "original", message |-> message]
       IN  IF ~IsEnabled \/ ~HasEngine \/ ~ShouldAttemptHealing(message)
           THEN /\ Settle("throw", Null, error)
                /\ UNCHANGED <<healCalls, engine, engineVars>>
           ELSE /\ healCalls' = healCalls + 1
                /\ pc' = "awaitHealing"
                /\ BeginAttempt("wrapper", testName)
                /\ UNCHANGED outcome
    /\ UNCHANGED <<variant, owner, wConfig, started, testName, healingResult,
                   annotation, queried, actionCalls, validateCalls, store,
                   events>>
    /\ UNCHANGED otherVars

\* healingResult.success && healingResult.appliedLocator
Usable(result) == result.success /\ result.appliedLocator # Null

\* attemptHealing settles: a rejection leaves the catch block as it is; a
\* usable result is validated by _performQuery; anything else rethrows the
\* original error
HealingSettles ==
    /\ pc = "awaitHealing"
    /\ epc = "returned"
    /\ caller = "wrapper"
    /\ epc' = "idle"
    /\ IF eThrew
       THEN /\ Settle("throw", Null, [id |-> "healing-engine", message |-> <<>>])
            /\ UNCHANGED <<healingResult, validateCalls>>
       ELSE /\ healingResult' = eResult
            /\ IF Usable(eResult)
               THEN /\ validateCalls' = validateCalls + 1
                    /\ pc' = "awaitQuery"
                    /\ UNCHANGED outcome
               ELSE /\ Settle("throw", Null, originalError)
                    /\ UNCHANGED validateCalls
    /\ UNCHANGED <<wrapperVars, started, testName, originalError, annotation,
                   queried, actionCalls, healCalls, attempts, caller,
                   eTest, restOfAttempt, eResult, eThrew, trace, store,
                   events>>
    /\ UNCHANGED otherVars

\* the event object wrapSelectorResolution hands to recordHealingEvent
HealingEvent(result, test) ==
    [originalLocator |-> OriginalSelector,
     healedLocator |-> result.appliedLocator,
     score |-> IF result.score = NoScore THEN 0 ELSE result.score,
     strategy |-> IF result.strategy = Null THEN "unknown" ELSE result.strategy,
     applied |-> TRUE,
     autoApplied |-> (IF result.score = NoScore THEN 0 ELSE result.score)
                        >= EffectiveThreshold(wConfig.autoApplyThreshold),
     testName |-> test]

\* the suggestion recordHealingEvent stores
EventSuggestion(event) ==
    Suggestion([success |-> TRUE, appliedLocator |-> event.healedLocator,
                score |-> event.score, strategy |-> event.strategy,
                reason |-> Null, candidates |-> <<>>, applied |-> event.applied],
               event.applied, event.testName, event.originalLocator)

\* SelfHealingWrapper.recordHealingEvent: the suggestion goes to the
\* wrapper's own store instance, the trace event to the first page
RecordHealingEvent(event, writeOk) ==
    /\ store' = IF HasEngine
                THEN StoreSuggestion(store, EventSuggestion(event), writeOk)
                ELSE store
    /\ events' = Append(events, event)

\* a wrapper that queries again when the healed locator finds nothing
QuerySettlesReturning_Requery(how, writeOk) ==
    /\ pc = "awaitQuery"
    /\ variant = "part_004"
    /\ queried' = how
    /\ IF how = "element"
       THEN /\ RecordHealingEvent(HealingEvent(healingResult, testName), writeOk)
            /\ Settle("return", "healed-element", NoError)
            /\ UNCHANGED validateCalls
       ELSE /\ validateCalls' = validateCalls + 1
            /\ UNCHANGED <<pc, outcome, store, events>>
    /\ UNCHANGED <<wrapperVars, started, testName, originalError,
                   healingResult, annotation, actionCalls, healCalls,
                   engineVars>>
    /\ UNCHANGED otherVars

\* a wrapper that lets the error of the failed validation escape
QuerySettlesThrowing_RethrowsHealedError(how, writeOk) ==
    /\ pc = "awaitQuery"
    /\ variant = "selfHealingWrapper.ts"
    /\ queried' = how
    /\ IF how = "element"
       THEN /\ RecordHealingEvent(HealingEvent(healingResult, testName), writeOk)
            /\ Settle("throw", Null, originalError)
       ELSE /\ Settle("throw", Null,
                      [id |-> "healed-selector-failed", message |-> <<>>])
            /\ UNCHANGED <<store, events>>
    /\ UNCHANGED <<wrapperVars, started, testName, originalError,
                   healingResult, annotation, actionCalls, healCalls,
                   validateCalls, engineVars>>
    /\ UNCHANGED otherVars

\* _performQuery settles, src/unnamed/part_004: a found element is recorded
\* and returned; null or an exception rethrows the original error
QuerySettlesReturning(how, writeOk) ==
    /\ pc = "awaitQuery"
    /\ variant = "part_004"
    /\ queried' = how
    /\ IF how = "element"
       THEN /\ RecordHealingEvent(HealingEvent(healingResult, testName), writeOk)
            /\ Settle("return", "healed-element", NoError)
       ELSE /\ Settle("throw", Null, originalError)
            /\ UNCHANGED <<store, events>>
    /\ UNCHANGED <<wrapperVars, started, testName, originalError,
                   healingResult, annotation, actionCalls, healCalls,
                   validateCalls, engineVars>>
    /\ UNCHANGED otherVars

\* _performQuery settles, selfHealingWrapper.ts: a found element is signalled
\* by a thrown sentinel; the catch records the event, attaches
\* selfHealingResult to the original error and rethrows it
QuerySettlesThrowing(how, writeOk) ==
    /\ pc = "awaitQuery"
    /\ variant = "selfHealingWrapper.ts"
    /\ queried' = how
    /\ IF how = "element"
       THEN /\ RecordHealingEvent(HealingEvent(healingResult, testName), writeOk)
            /\ annotation' =
                   [success |-> TRUE,
                    healedLocator |-> healingResult.appliedLocator,
                    score |-> IF healingResult.score = NoScore THEN 0
                              ELSE healingResult.score,
                    strategy |-> IF healingResult.strategy = Null THEN "unknown"
                                 ELSE healingResult.strategy]
       ELSE UNCHANGED <<store, events, annotation>>
    /\ Settle("throw", Null, originalError)
    /\ UNCHANGED <<wrapperVars, started, testName, originalError,
                   healingResult, actionCalls, healCalls, validateCalls,
                   engineVars>>
    /\ UNCHANGED otherVars

(***************************************************************************)
(* The specification.                                                      *)
(***************************************************************************)
Next ==
    \/ \E source \in WrapperSources, config \in Configs : Configure(source, config)
    \/ \E test \in TestNames : Call(test)
    \/ ActionReturns
    \/ \E message \in Messages : ActionThrows(message)
    \/ \E how \in SnapshotOutcomes : SnapshotSettles(how)
    \/ \E i \in 1..2, found \in StrategyOutputs, failsInside \in BOOLEAN :
           StrategySettles(i, found, failsInside)
    \/ \E signals \in SignalSet, throws \in BOOLEAN : ScoreSettles(signals, throws)
    \/ \E writeOk \in BOOLEAN : FinishAttempt(writeOk)
    \/ HealingSettles
    \/ \E how \in QueryOutcomes, writeOk \in BOOLEAN :
           QuerySettlesReturning(how, writeOk)
    \/ \E how \in QueryOutcomes, writeOk \in BOOLEAN :
           QuerySettlesThrowing(how, writeOk)

Spec == Init /\ [][Next]_vars


(***************************************************************************)
(* A HealingEngine used directly: successive calls of attemptHealing on    *)
(* one instance, with patterns of excludeTests that carry the g flag.      *)
(***************************************************************************)
EngineConfigs ==
    [enabled : BOOLEAN, mode : {"auto"}, autoApplyThreshold : {85},
     strategies : {<<"text">>},
     excludeTests : {<<>>, <<VisualSpecRegex>>, <<GlobalVisualSpecRegex>>,
                     <<GlobalCheckoutRegex, GlobalVisualSpecRegex>>}]

InitEngine ==
    /\ variant = "none"
    /\ owner = "direct"
    /\ wConfig = NoConfig
    /\ engine \in {NewHealingEngine(config) : config \in EngineConfigs}
    /\ InitCall
    /\ epc = "idle"
    /\ InitAttempt
    /\ store = <<>>
    /\ events = <<>>
    /\ InitOther

NextEngine ==
    \/ \E test \in TestNames : DirectAttempt(test)
    \/ \E how \in SnapshotOutcomes : SnapshotSettles(how)
    \/ \E found \in StrategyOutputs, failsInside \in BOOLEAN :
           StrategySettles(1, found, failsInside)
    \/ \E signals \in SignalSet, throws \in BOOLEAN : ScoreSettles(signals, throws)
    \/ \E writeOk \in BOOLEAN : FinishAttempt(writeOk)

SpecEngine == InitEngine /\ [][NextEngine]_vars

(***************************************************************************)
(* The mode policy on its own: sort, applyHealing and logHealingAttempt    *)
(* (the tail of attemptHealing) applied to any scored candidate list under *)
(* any configuration of mode and threshold.                                *)
(***************************************************************************)
PolicyThresholds == {0, 50, 90, 100}

PolicyScores == {0, 50, 89, 90, 100}

PolicyCandidates ==
    [locator : Locators, strategy : {"semantic", "attribute"}, score : PolicyScores]

PolicyConfigs ==
    [enabled : {TRUE}, mode : Modes, autoApplyThreshold : PolicyThresholds,
     strategies : {<<"semantic", "attribute">>}, excludeTests : {<<>>}]

InitPolicy ==
    /\ variant = "none"
    /\ owner = "direct"
    /\ wConfig = NoConfig
    /\ engine \in {NewHealingEngine(config) : config \in PolicyConfigs}
    /\ InitCall
    /\ epc = "scoring"
    /\ attempts = 1
    /\ caller = "direct"
    /\ eTest = NoTest
    /\ snapshot = "full"
    /\ pending = {}
    /\ groups = <<>>
    /\ failedInside = {}
    /\ unique = <<>>
    /\ nextIdx = 1
    /\ scored \in SeqsUpTo(PolicyCandidates, MaxScored)
    /\ skipped = {}
    /\ eResult = NoResult
    /\ eThrew = FALSE
    /\ trace = NoTrace
    /\ store = <<>>
    /\ events = <<>>
    /\ InitOther

NextPolicy == \E writeOk \in BOOLEAN : FinishAttempt(writeOk)

SpecPolicy == InitPolicy /\ [][NextPolicy]_vars

(***************************************************************************)
(* deduplicateCandidates on its own, applied to any merged candidate list. *)
(***************************************************************************)
\* locators with and without a colon, so that keys of different pairs
\* could run into each other
DedupLocators == {"a", "a:text"}

\* candidates of equal (locator, strategy) differ in their reasoning
DedupCandidates ==
    [locator : DedupLocators, strategy : {"text", "semantic"},
     reasoning : {"exact", "partial"}]

InitDedup ==
    /\ InitWrapper
    /\ InitCall
    /\ epc = "merged"
    /\ attempts = 0
    /\ caller = "none"
    /\ eTest = NoTest
    /\ snapshot = "full"
    /\ pending = {}
    /\ groups \in {<<list>> : list \in SeqsUpTo(DedupCandidates, MaxLen)}
    /\ failedInside = {}
    /\ unique = <<>>
    /\ nextIdx = 1
    /\ scored = <<>>
    /\ skipped = {}
    /\ eResult = NoResult
    /\ eThrew = FALSE
    /\ trace = NoTrace
    /\ store = <<>>
    /\ events = <<>>
    /\ InitOther

\* const uniqueCandidates = this.deduplicateCandidates(candidateGroups.flat())
Deduplicate ==
    /\ epc = "merged"
    /\ unique' = DeduplicateCandidates(Flat(groups))
    /\ epc' = "scoring"
    /\ UNCHANGED <<wrapperVars, callVars, attempts, caller, eTest, snapshot, pending,
                   groups, failedInside, nextIdx, scored, skipped, eResult,
                   eThrew, trace, store, events>>
    /\ UNCHANGED otherVars

NextDedup == Deduplicate

SpecDedup == InitDedup /\ [][NextDedup]_vars


(***************************************************************************)
(* A SuggestionStore used directly: successive calls of storeSuggestion on *)
(* a storage file that does not exist at first.  log holds, for each call, *)
(* whether its file-system calls went through.                             *)
(***************************************************************************)
\* the record of the i-th call: records differ in originalLocator, and
\* alternate between a healing that was applied and one that failed.
\* JSON.stringify and JSON.parse keep such a record as it is: an absent
\* optional field stays absent
NthSuggestion(i) ==
    IF i % 2 = 0
    THEN Suggestion(Result(TRUE, "[data-testid=\"submit-btn\"]", 100, Null, <<>>, TRUE),
                    TRUE, "checkout.spec.ts", ToString(i))
    ELSE Suggestion(Result(FALSE, Null, NoScore, "No healing candidates found", <<>>, FALSE),
                    FALSE, NoTest, ToString(i))

\* how many calls of the log met a file-system call that threw
WriteFailures == Cardinality({i \in DOMAIN log : ~log[i]})

\* no wrapper, no engine, no storage file
InitStore == Init

\* await store.storeSuggestion(NthSuggestion(n)) as the n-th call
StoreCall ==
    /\ Len(log) < MaxStoreCalls
    /\ \E writeOk \in BOOLEAN :
        /\ ~writeOk => WriteFailures < MaxWriteFailures
        /\ store' = StoreSuggestionOn(fileKind, store,
                                      NthSuggestion(Len(log) + 1), writeOk)
        /\ log' = Append(log, writeOk)
    /\ UNCHANGED <<wrapperVars, callVars, engineVars, events, answer, fileKind, codeVars, context, clientVars,
                   liveVars, procs>>

NextStore == StoreCall

SpecStore == InitStore /\ [][NextStore]_vars


(***************************************************************************)
(* A SuggestionStore opened on a storage file of any content: written by   *)
(* earlier runs, by hand, or cut short.                                    *)
(***************************************************************************)
\* getRecentSuggestions(limit: number = 10)
DefaultLimit == 10

\* scores a stored HealingResult may carry
FileScores == {0, 85, 90, 100}

\* records of a storage file: a successful result carries a score, a failed
\* one carries none
FileRecords ==
    {Suggestion(Result(TRUE, "[data-testid=\"submit-btn\"]", score, Null, <<>>, applied),
                applied, NoTest, OriginalSelector) :
         score \in FileScores, applied \in BOOLEAN}
    \cup
    {Suggestion(Result(FALSE, Null, NoScore, "No healing candidates found", <<>>, FALSE),
                applied, NoTest, OriginalSelector) : applied \in BOOLEAN}

InitFile ==
    /\ InitWrapper
    /\ InitCall
    /\ epc = "idle"
    /\ InitAttempt
    /\ events = <<>>
    /\ log = <<>>
    /\ answer = NoAnswer
    /\ fileKind \in FileKinds
    /\ disk = NoDisk
    /\ clock = 1
    /\ context = NoContext
    /\ InitClient
    /\ InitLive
    /\ InitProcs
    /\ store \in IF fileKind = "array" THEN SeqsUpTo(FileRecords, MaxFileRecords)
                 ELSE {<<>>}

\* await store.storeSuggestion(NthSuggestion(n)) as the n-th call on the file
FileStore(writeOk) ==
    /\ Len(log) < MaxFileCalls
    /\ store' = StoreSuggestionOn(fileKind, store, NthSuggestion(Len(log) + 1), writeOk)
    /\ log' = Append(log, writeOk)
    /\ answer' = [op |-> "storeSuggestion", threw |-> FALSE, kind |-> "none",
                  value |-> <<>>]
    /\ UNCHANGED <<wrapperVars, callVars, engineVars, events, fileKind, codeVars, context, clientVars,
                   liveVars, procs>>

\* await store.loadSuggestions()
FileLoad ==
    /\ answer' = [op |-> "loadSuggestions"] @@ LoadSuggestions(fileKind, store)
    /\ UNCHANGED <<wrapperVars, callVars, engineVars, store, events, log, fileKind, codeVars, context, clientVars,
                   liveVars, procs>>

\* await store.getRecentSuggestions(limit)
FileRecent(limit) ==
    /\ answer' = [op |-> "getRecentSuggestions"]
                     @@ GetRecentSuggestions(fileKind, store, limit)
    /\ UNCHANGED <<wrapperVars, callVars, engineVars, store, events, log, fileKind, codeVars, context, clientVars,
                   liveVars, procs>>

\* await store.getStatistics()
FileStatistics ==
    /\ answer' = [op |-> "getStatistics"] @@ GetStatistics(fileKind, store)
    /\ UNCHANGED <<wrapperVars, callVars, engineVars, store, events, log, fileKind, codeVars, context, clientVars,
                   liveVars, procs>>

NextFile ==
    \/ \E writeOk \in BOOLEAN : FileStore(writeOk)
    \/ FileLoad
    \/ \E limit \in {0, 1, DefaultLimit} : FileRecent(limit)
    \/ FileStatistics

SpecFile == InitFile /\ [][NextFile]_vars


(***************************************************************************)
(* CodeModifier.  A text is a sequence of characters, where a run of       *)
(* characters that are neither white space nor quotes is held as one       *)
(* element; a file is its content.split('\n'), which join('\n') turns back *)
(* into the same content as long as no line is given a line break.         *)
(***************************************************************************)
\* const searchRange = 3
SearchRange == 3

\* the character U+0060, the quote of template literals
Backtick == "backtick"

\* String.prototype.indexOf from the first character, 0 when there is none
IndexOf(s, pattern) ==
    IF Includes(s, pattern)
    THEN CHOOSE i \in 1..(Len(s) - Len(pattern) + 1) :
             /\ SubSeq(s, i, i + Len(pattern) - 1) = pattern
             /\ \A j \in 1..(i - 1) : SubSeq(s, j, j + Len(pattern) - 1) # pattern
    ELSE 0

\* String.prototype.replace(pattern, replacement) with two strings, the
\* replacement free of $: the first occurrence only
ReplaceFirst(s, pattern, replacement) ==
    LET i == IndexOf(s, pattern)
    IN  IF i = 0 THEN s
        ELSE SubSeq(s, 1, i - 1) \o replacement \o SubSeq(s, i + Len(pattern), Len(s))

\* String.prototype.replace(/c/g, d)
ReplaceAll(s, c, d) == [i \in DOMAIN s |-> IF s[i] = c THEN d ELSE s[i]]

RECURSIVE CollapseSpace(_)
\* replace(/\s+/g, ' ')
CollapseSpace(s) ==
    IF Len(s) < 2 THEN s
    ELSE IF s[1] = " " /\ s[2] = " " THEN CollapseSpace(Tail(s))
         ELSE <<s[1]>> \o CollapseSpace(Tail(s))

\* String.prototype.trim of a text whose white space is collapsed
Trim(s) ==
    LET first == IF s # <<>> /\ s[1] = " " THEN 2 ELSE 1
        last == IF s # <<>> /\ s[Len(s)] = " " THEN Len(s) - 1 ELSE Len(s)
    IN  SubSeq(s, first, last)

\* CodeModifier.containsLocator
ContainsLocator(line, locator) ==
    LET normalizedLine == Trim(CollapseSpace(line))
        normalizedLocator == Trim(CollapseSpace(locator))
        locatorVariations ==
            << <<"\"">> \o locator \o <<"\"">>,
               <<"'">> \o locator \o <<"'">>,
               <<Backtick>> \o locator \o <<Backtick>>,
               ReplaceAll(locator, "\"", "'"),
               ReplaceAll(locator, "'", "\"") >>
    IN  \/ Includes(normalizedLine, normalizedLocator)
        \/ \E k \in DOMAIN locatorVariations :
               Includes(normalizedLine, locatorVariations[k])

\* CodeModifier.replaceLocatorInLine.  Its regular expression holds the
\* original locator literally between two quotes, so it matches no line
\* that the first branch has not taken already
ReplaceLocatorInLine(line, originalLocator, healedLocator) ==
    LET quoteStyles == <<"\"", "'", Backtick>>
        Quoted(quote, text) == <<quote>> \o text \o <<quote>>
        quotedHits == {k \in DOMAIN quoteStyles :
                          Includes(line, Quoted(quoteStyles[k], originalLocator))}
        first == CHOOSE k \in quotedHits : \A j \in quotedHits : k <= j
    IN  IF Includes(line, originalLocator)
        THEN ReplaceFirst(line, originalLocator, healedLocator)
        ELSE IF quotedHits # {}
        THEN ReplaceFirst(line, Quoted(quoteStyles[first], originalLocator),
                          Quoted(quoteStyles[first], healedLocator))
        ELSE ReplaceFirst(line, originalLocator, healedLocator)

\* a search that tries the line below before the line above
SearchOrder_BelowFirst(lineCount, targetLineNumber) ==
    LET wanted == <<targetLineNumber>> \o
                  Flat([offset \in 1..SearchRange |->
                           <<targetLineNumber + offset, targetLineNumber - offset>>])
    IN  SelectSeq(wanted, LAMBDA n : n >= 1 /\ n <= lineCount)

\* the lines replaceLocatorInLines looks at, in its order: the target line,
\* then for offset 1, 2, 3 the line above and the line below
SearchOrder(lineCount, targetLineNumber) ==
    LET wanted == <<targetLineNumber>> \o
                  Flat([offset \in 1..SearchRange |->
                           <<targetLineNumber - offset, targetLineNumber + offset>>])
    IN  SelectSeq(wanted, LAMBDA n : n >= 1 /\ n <= lineCount)

\* a modifier that looks for the locator in every line of the file
ReplaceLocatorInLines_WholeFile(lines, targetLineNumber, originalLocator, healedLocator) ==
    LET hits == {n \in DOMAIN lines : ContainsLocator(lines[n], originalLocator)}
        hit == CHOOSE n \in hits : \A m \in hits : n <= m
    IN  IF hits = {}
        THEN [found |-> FALSE, lines |-> lines]
        ELSE [found |-> TRUE,
              lines |-> [lines EXCEPT ![hit] =
                            ReplaceLocatorInLine(lines[hit], originalLocator, healedLocator)]]

\* CodeModifier.replaceLocatorInLines; found is FALSE where it returns null
ReplaceLocatorInLines(lines, targetLineNumber, originalLocator, healedLocator) ==
    LET order == SearchOrder(Len(lines), targetLineNumber)
        hits == {k \in DOMAIN order : ContainsLocator(lines[order[k]], originalLocator)}
        hit == order[CHOOSE k \in hits : \A j \in hits : k <= j]
    IN  IF targetLineNumber < 1 \/ targetLineNumber > Len(lines) \/ hits = {}
        THEN [found |-> FALSE, lines |-> lines]
        ELSE [found |-> TRUE,
              lines |-> [lines EXCEPT ![hit] =
                            ReplaceLocatorInLine(lines[hit], originalLocator, healedLocator)]]

\* the locator to replace, and the healed one
OriginalLocator == <<"form", " ", "[data-testid=", "'", "submit", "'", "]">>

HealedLocator == <<"#submit-button">>

\* a line without the locator; one that holds it once; one that holds it
\* twice; one that holds it with the other quote character; one that
\* holds it with more white space
PlainLine == <<"await", " ", "page.goto(", "'", "/", "'", ");">>

ExactLine == <<"await", " ", "page.click(", "\"">> \o OriginalLocator \o <<"\"", ");">>

TwiceLine ==
    <<"await", " ", "page.dragAndDrop(", "\"">> \o OriginalLocator
        \o <<"\"", ",", " ", "\"">> \o OriginalLocator \o <<"\"", ");">>

SwappedLine ==
    <<"await", " ", "page.click(", Backtick, "form", " ", "[data-testid=", "\"",
      "submit", "\"", "]", Backtick, ");">>

SpacedLine ==
    <<"await", " ", "page.click(", "\"", "form", " ", " ", "[data-testid=", "'",
      "submit", "'", "]", "\"", ");">>

LocatorLines == {ExactLine, TwiceLine, SwappedLine, SpacedLine}

\* CodeModificationOptions for the one test file; createBackup may be left out
Options(content) ==
    [lineNumber : 0..(Len(content) + 1),
     originalLocator : {OriginalLocator}, healedLocator : {HealedLocator},
     createBackup : {"true", "false", "undefined"}]

\* the file-system call of applyHealingToCode that throws, if any
FsOutcomes == {"ok", "read-throws", "backup-write-throws", "target-write-throws"}

\* CodeModificationResult; backupFilePath is the Date.now() of its name,
\* 0 when there is none
ModificationResult(success, backupFilePath, error) ==
    [success |-> success, backupFilePath |-> backupFilePath, error |-> error]

\* CodeModifier.applyHealingToCode: the disk it leaves, its result, and the
\* files it wrote, in the order of the writes
ApplyHealingToCode(options, aDisk, now, fsOutcome) ==
    LET wantsBackup == options.createBackup # "false"
        withBackup ==
            IF wantsBackup
            THEN [aDisk EXCEPT !.backups =
                     [t \in DOMAIN aDisk.backups \cup {now} |->
                         IF t = now THEN aDisk.content ELSE aDisk.backups[t]]]
            ELSE aDisk
        backupWrites == IF wantsBackup THEN <<"backup">> ELSE <<>>
        backupFilePath == IF wantsBackup THEN now ELSE 0
        modified == ReplaceLocatorInLines(aDisk.content, options.lineNumber,
                                          options.originalLocator, options.healedLocator)
    IN  IF ~aDisk.exists
        THEN [disk |-> aDisk, writes |-> <<>>, threw |-> "none",
              result |-> ModificationResult(FALSE, 0, "Test file not found")]
        ELSE IF fsOutcome = "read-throws"
                \/ (wantsBackup /\ fsOutcome = "backup-write-throws")
        THEN [disk |-> aDisk, writes |-> <<>>, threw |-> fsOutcome,
              result |-> ModificationResult(FALSE, 0, "Failed to modify code")]
        ELSE IF ~modified.found
        THEN [disk |-> withBackup, writes |-> backupWrites, threw |-> "none",
              result |-> ModificationResult(FALSE, 0, "Could not find locator")]
        ELSE IF fsOutcome = "target-write-throws"
        THEN [disk |-> withBackup, writes |-> backupWrites, threw |-> fsOutcome,
              result |-> ModificationResult(FALSE, 0, "Failed to modify code")]
        ELSE [disk |-> [withBackup EXCEPT !.content = modified.lines],
              writes |-> backupWrites \o <<"target">>, threw |-> "none",
              result |-> ModificationResult(TRUE, backupFilePath, Null)]

\* CodeModifier.restoreFromBackup onto the test file
RestoreFromBackup(backupFilePath, aDisk, writeOk) ==
    IF backupFilePath \in DOMAIN aDisk.backups /\ writeOk
    THEN [disk |-> [aDisk EXCEPT !.exists = TRUE,
                                 !.content = aDisk.backups[backupFilePath]],
          result |-> TRUE]
    ELSE [disk |-> aDisk, result |-> FALSE]

\* await modifier.applyHealingToCode(options); log keeps each call with the
\* disk it found
Modify(options, fsOutcome) ==
    LET done == ApplyHealingToCode(options, disk, clock, fsOutcome)
    IN  /\ disk' = done.disk
        /\ log' = Append(log, [options |-> options, before |-> disk,
                               after |-> done.disk, writes |-> done.writes,
                               threw |-> done.threw, result |-> done.result])
        /\ answer' = [op |-> "applyHealingToCode", threw |-> FALSE,
                      kind |-> IF done.result.success THEN "true" ELSE "false",
                      value |-> <<done.result.backupFilePath>>]
        /\ UNCHANGED <<wrapperVars, callVars, engineVars, store, events,
                       fileKind, clock, context, clientVars,
                   liveVars, procs>>

\* await modifier.restoreFromBackup(backupFilePath, testFilePath)
Restore(backupFilePath, writeOk) ==
    LET done == RestoreFromBackup(backupFilePath, disk, writeOk)
    IN  /\ disk' = done.disk
        /\ answer' = [op |-> "restoreFromBackup", threw |-> FALSE,
                      kind |-> IF done.result THEN "true" ELSE "false",
                      value |-> <<backupFilePath>>]
        /\ UNCHANGED <<wrapperVars, callVars, engineVars, store, events,
                       log, fileKind, clock, context, clientVars,
                   liveVars, procs>>

\* a millisecond passes
Tick ==
    /\ clock < MaxClock
    /\ clock' = clock + 1
    /\ UNCHANGED <<wrapperVars, callVars, engineVars, store, events,
                   log, answer, fileKind, disk, context, clientVars,
                   liveVars, procs>>

\* one modification of a test file of any content, or of none
ModifiableFiles ==
    {content \in SeqsUpTo(LocatorLines \cup {PlainLine}, MaxFileLines) :
        /\ content # <<>>
        /\ Cardinality({n \in DOMAIN content : content[n] # PlainLine}) <= MaxLocatorLines}

InitNoStore ==
    /\ InitWrapper
    /\ InitCall
    /\ epc = "idle"
    /\ InitAttempt
    /\ store = <<>>
    /\ events = <<>>
    /\ log = <<>>
    /\ answer = NoAnswer
    /\ fileKind = "array"
    /\ clock = 1
    /\ context = NoContext
    /\ InitClient
    /\ InitLive
    /\ InitProcs

InitModify ==
    /\ InitNoStore
    /\ disk \in {NoDisk} \cup
                 {[exists |-> TRUE, content |-> content, backups |-> <<>>] :
                     content \in ModifiableFiles}

NextModify ==
    /\ log = <<>>
    /\ \E options \in Options(disk.content), fsOutcome \in FsOutcomes :
           Modify(options, fsOutcome)

SpecModify == InitModify /\ [][NextModify]_vars

\* successive modifications of one test file, with restores in between
BackedUpFiles == SeqsUpTo({PlainLine, ExactLine, TwiceLine}, MaxBackupLines) \ {<<>>}

InitBackup ==
    /\ InitNoStore
    /\ disk \in {[exists |-> TRUE, content |-> content, backups |-> <<>>] :
                     content \in BackedUpFiles}

NextBackup ==
    \/ /\ Len(log) < MaxModifications
       /\ \E options \in Options(disk.content), fsOutcome \in FsOutcomes :
              Modify(options, fsOutcome)
    \/ \E backupFilePath \in 1..MaxClock, writeOk \in BOOLEAN :
           Restore(backupFilePath, writeOk)
    \/ Tick

SpecBackup == InitBackup /\ [][NextBackup]_vars


(***************************************************************************)
(* The semantic and the attribute strategy on a page.  A locator text is a *)
(* sequence of tokens: words, quotes and punctuation; a page is the        *)
(* sequence of its elements in document order.                             *)
(***************************************************************************)
\* the characters of the words that are compared by length
Chars ==
    [word \in {"submit", "submit-btn", "button", "getByRole"} |->
        CASE word = "submit" -> <<"s", "u", "b", "m", "i", "t">>
          [] word = "submit-btn" -> <<"s", "u", "b", "m", "i", "t", "-", "b", "t", "n">>
          [] word = "button" -> <<"b", "u", "t", "t", "o", "n">>
          [] word = "getByRole" -> <<"g", "e", "t", "B", "y", "R", "o", "l", "e">>]

Quotes == {"'", "\""}

\* locator.match(/prefix\s*['"]([^'"]+)['"]/): the text between the quotes
\* of the first match, Null when there is none
CaptureQuoted(locator, prefix) ==
    LET n == Len(prefix)
        hits == {i \in 1..(Len(locator) - n - 2) :
                    /\ SubSeq(locator, i, i + n - 1) = prefix
                    /\ locator[i + n] \in Quotes
                    /\ locator[i + n + 1] \notin Quotes
                    /\ locator[i + n + 2] \in Quotes}
    IN  IF hits = {} THEN Null
        ELSE locator[(CHOOSE i \in hits : \A j \in hits : i <= j) + n + 1]

\* locator.match(/#([a-zA-Z0-9_-]+)/) and /\.([a-zA-Z0-9_-]+)/: the word
\* that follows the first mark followed by a word
CaptureWord(locator, mark) ==
    LET hits == {i \in 1..(Len(locator) - 1) :
                    locator[i] = mark /\ locator[i + 1] \in DOMAIN Chars}
    IN  IF hits = {} THEN Null
        ELSE locator[(CHOOSE i \in hits : \A j \in hits : i <= j) + 1]

\* a || b of two match results
OrElse(a, b) == IF a # Null THEN a ELSE b

\* SemanticStrategy.extractSemanticInfo; the record without a field set
\* stands for null
ExtractSemanticInfo(locator) ==
    [role |-> OrElse(CaptureQuoted(locator, <<"role", ":">>),
                     CaptureQuoted(locator, <<"getByRole", "(">>)),
     label |-> OrElse(CaptureQuoted(locator, <<"name", ":">>),
                      CaptureQuoted(locator, <<"getByLabel", "(">>)),
     placeholder |-> OrElse(CaptureQuoted(locator, <<"placeholder", ":">>),
                            CaptureQuoted(locator, <<"getByPlaceholder", "(">>)),
     title |-> OrElse(CaptureQuoted(locator, <<"title", ":">>),
                      CaptureQuoted(locator, <<"getByTitle", "(">>))]

\* AttributeStrategy.extractAttributeInfo: the entries of the record in
\* insertion order.  The only data- attribute of the locators is
\* data-testid, which the last pattern sets a second time
ExtractAttributeInfo(locator) ==
    LET entries ==
            << <<"data-testid", OrElse(CaptureQuoted(locator, <<"data-testid", "=">>),
                                       CaptureQuoted(locator, <<"getByTestId", "(">>))>>,
               <<"id", OrElse(CaptureQuoted(locator, <<"id", "=">>),
                              CaptureWord(locator, "#"))>>,
               <<"class", OrElse(CaptureQuoted(locator, <<"class", "=">>),
                                 CaptureWord(locator, "."))>>,
               <<"name", CaptureQuoted(locator, <<"name", "=">>)>>,
               <<"type", CaptureQuoted(locator, <<"type", "=">>)>>,
               <<"value", CaptureQuoted(locator, <<"value", "=">>)>>,
               <<"href", CaptureQuoted(locator, <<"href", "=">>)>>,
               <<"alt", CaptureQuoted(locator, <<"alt", "=">>)>> >>
    IN  SelectSeq(entries, LAMBDA entry : entry[2] # Null)

\* the element carries the attribute
HasAttribute(element, name) == name \in DOMAIN element.attributes

\* the selector role=<role>: the explicit role of the element, or that of
\* its tag
HasRole(element, role) ==
    IF HasAttribute(element, "role") THEN element.attributes["role"] = role
    ELSE element.tag = role

\* SemanticStrategy.findByRole for an original locator that names no label
FindByRole(document, role) ==
    LET elements == SelectSeq(document, LAMBDA e : HasRole(e, role))
    IN  [i \in DOMAIN elements |-> "page.getByRole('" \o role \o "')"]

\* SemanticStrategy.findCandidates: the locators it pushes.  The original
\* locators of the model name no label, placeholder or title, so that only
\* findByRole is reached
SemanticFinds(aContext) ==
    LET semanticInfo == ExtractSemanticInfo(aContext.originalLocator)
    IN  IF semanticInfo.role # Null
        THEN FindByRole(aContext.document, semanticInfo.role)
        ELSE <<>>

\* AttributeStrategy.findByExactAttribute
FindByExactAttribute(document, attrName, attrValue) ==
    LET elements == SelectSeq(document,
                        LAMBDA e : HasAttribute(e, attrName)
                                       /\ e.attributes[attrName] = attrValue)
        locatorCall ==
            CASE attrName = "data-testid" -> "page.getByTestId('" \o attrValue \o "')"
              [] attrName = "id" -> "page.locator('#" \o attrValue \o "')"
              [] OTHER -> "page.locator('[" \o attrName \o "=\"" \o attrValue \o "\"]')"
    IN  [i \in DOMAIN elements |-> locatorCall]

\* AttributeStrategy.isAttributeValueSimilar of two values in lower case
\* without digits (extractPattern returns null for both)
IsAttributeValueSimilar(value1, value2) ==
    LET c1 == Chars[value1]
        c2 == Chars[value2]
        shorter == IF Len(c1) < Len(c2) THEN c1 ELSE c2
        longer == IF Len(c1) >= Len(c2) THEN c1 ELSE c2
    IN  \/ c1 = c2
        \/ /\ Includes(c1, c2) \/ Includes(c2, c1)
           /\ Len(shorter) * 10 >= Len(longer) * 6

\* AttributeStrategy.findBySimilarAttribute; no element of the model's
\* pages has a class, so that findByPartialClass finds nothing
FindBySimilarAttribute(document, attrName, attrValue) ==
    LET elements == SelectSeq(document,
                        LAMBDA e : HasAttribute(e, attrName)
                                       /\ IsAttributeValueSimilar(e.attributes[attrName],
                                                                  attrValue))
        LocatorCall(actualValue) ==
            CASE attrName = "data-testid" -> "page.getByTestId('" \o actualValue \o "')"
              [] attrName = "id" -> "page.locator('#" \o actualValue \o "')"
              [] OTHER -> "page.locator('[" \o attrName \o "=\"" \o actualValue \o "\"]')"
    IN  [i \in DOMAIN elements |-> LocatorCall(elements[i].attributes[attrName])]

\* AttributeStrategy.findCandidates: the locators it pushes
AttributeFinds(aContext) ==
    LET attributeInfo == ExtractAttributeInfo(aContext.originalLocator)
    IN  Flat([k \in DOMAIN attributeInfo |->
                 FindByExactAttribute(aContext.document, attributeInfo[k][1],
                                      attributeInfo[k][2])
                 \o FindBySimilarAttribute(aContext.document, attributeInfo[k][1],
                                           attributeInfo[k][2])])

\* what strategy.findCandidates(healingContext) pushes
StrategyFinds(strategy, aContext) ==
    CASE strategy = "semantic" -> SemanticFinds(aContext)
      [] strategy = "attribute" -> AttributeFinds(aContext)
      [] OTHER -> <<>>

\* the original locators #submit, page.getByRole('button') and
\* [data-testid="submit"]
IdLocator == <<"#", "submit">>

RoleLocator == <<"page", ".", "getByRole", "(", "'", "button", "'", ")">>

TestIdLocator == <<"[", "data-testid", "=", "\"", "submit", "\"", "]">>

\* <button data-testid="submit-btn" role="button">Submit</button>
SubmitButton ==
    [tag |-> "button", text |-> "Submit",
     attributes |-> [a \in {"data-testid", "role"} |->
                        IF a = "role" THEN "button" ELSE "submit-btn"]]

\* <button id="submit-btn" data-testid="submit-btn">Submit</button>
SubmitButtonWithId ==
    [tag |-> "button", text |-> "Submit",
     attributes |-> [a \in {"data-testid", "id"} |-> "submit-btn"]]

ScenarioContexts ==
    [originalLocator : {IdLocator, RoleLocator, TestIdLocator},
     document : {<<SubmitButton>>, <<SubmitButtonWithId>>,
                 <<SubmitButton, SubmitButtonWithId>>}]

ScenarioConfigs ==
    [enabled : {TRUE}, mode : Modes, autoApplyThreshold : {85},
     strategies : {<<"semantic", "attribute">>, <<"attribute", "semantic">>},
     excludeTests : {<<>>}]

InitScenario ==
    /\ variant = "none"
    /\ owner = "direct"
    /\ wConfig = NoConfig
    /\ engine \in {NewHealingEngine(config) : config \in ScenarioConfigs}
    /\ InitCall
    /\ epc = "idle"
    /\ InitAttempt
    /\ store = <<>>
    /\ events = <<>>
    /\ log = <<>>
    /\ answer = NoAnswer
    /\ fileKind = "array"
    /\ disk = NoDisk
    /\ clock = 1
    /\ context \in ScenarioContexts
    /\ InitClient
    /\ InitLive
    /\ InitProcs

NextScenario ==
    \/ DirectAttempt(NoTest)
    \/ \E how \in SnapshotOutcomes : SnapshotSettles(how)
    \/ \E i \in DOMAIN engine.strategies :
           StrategySettles(i, StrategyFinds(engine.strategies[i], context), FALSE)
    \/ \E signals \in SignalSet, throws \in BOOLEAN : ScoreSettles(signals, throws)
    \/ \E writeOk \in BOOLEAN : FinishAttempt(writeOk)

SpecScenario == InitScenario /\ [][NextScenario]_vars


(***************************************************************************)
(* One engine instance asked twice about the same failure: the document,   *)
(* the configuration and the context stay as they are between the calls,   *)
(* and the result of the earlier call is kept for comparison.              *)
(***************************************************************************)
RepeatConfigs ==
    [enabled : BOOLEAN, mode : Modes, autoApplyThreshold : {85},
     strategies : {<<"semantic", "attribute">>},
     excludeTests : {<<>>, <<VisualSpecRegex>>, <<GlobalVisualSpecRegex>>}]

InitRepeat ==
    /\ variant = "none"
    /\ owner = "direct"
    /\ wConfig = NoConfig
    /\ engine \in {NewHealingEngine(config) : config \in RepeatConfigs}
    /\ InitCall
    /\ epc = "idle"
    /\ InitAttempt
    /\ store = <<>>
    /\ events = <<>>
    /\ log = <<>>
    /\ answer = NoAnswer
    /\ fileKind = "array"
    /\ disk = NoDisk
    /\ clock = 1
    /\ context \in ScenarioContexts
    /\ InitClient
    /\ InitLive
    /\ InitProcs

\* attemptHealing called on the instance; a later call passes the context
\* of the first one, and the caller keeps the result it got before
RepeatAttempt(test) ==
    /\ owner = "direct"
    /\ epc \in {"idle", "returned"}
    /\ attempts < MaxAttempts
    /\ attempts > 0 => test = eTest
    /\ BeginAttempt("direct", test)
    /\ log' = IF attempts > 0 THEN Append(log, eResult) ELSE log
    /\ UNCHANGED <<variant, owner, wConfig, callVars, store, events, answer,
                   fileKind, codeVars, context, clientVars,
                   liveVars, procs>>

\* the unchanged document answers every evaluator and every scoring call
\* as before: no element handle fails
NextRepeat ==
    \/ \E test \in TestNames : RepeatAttempt(test)
    \/ \E how \in SnapshotOutcomes : SnapshotSettles(how)
    \/ \E i \in DOMAIN engine.strategies :
           StrategySettles(i, StrategyFinds(engine.strategies[i], context), FALSE)
    \/ \E signals \in SignalSet : ScoreSettles(signals, FALSE)
    \/ \E writeOk \in BOOLEAN : FinishAttempt(writeOk)

SpecRepeat == InitRepeat /\ [][NextRepeat]_vars


(***************************************************************************)
(* The client: SelfHealingLocator._withHealing around an operation, and    *)
(* HealingManager.healLocator, one action per await.                       *)
(***************************************************************************)
MsgTimeout == <<"T","i","m","e","o","u","t">>

\* the message parts _isSelectorError looks for
ClientSelectorErrors ==
    << <<"N","o"," ","e","l","e","m","e","n","t"," ","m","a","t","c","h","i","n","g">>,
       <<"s","t","r","i","c","t"," ","m","o","d","e"," ","v","i","o","l","a","t","i","o","n">>,
       <<"C","o","u","l","d"," ","n","o","t"," ","r","e","s","o","l","v","e">>,
       MsgTimeout >>

\* what operation() may reject with: a TimeoutError, an error that names no
\* selector failure, and one that words it as the server does
ClientErrors ==
    {[message |-> MsgTimeout, timeoutError |-> TRUE, thrown |-> TRUE],
     [message |-> MsgTargetClosed, timeoutError |-> FALSE, thrown |-> TRUE],
     [message |-> MsgElementNotFound, timeoutError |-> FALSE, thrown |-> TRUE]}

\* SelfHealingLocator._isSelectorError
IsSelectorError(error) ==
    \/ \E k \in DOMAIN ClientSelectorErrors :
           Includes(error.message, ClientSelectorErrors[k])
    \/ error.timeoutError

\* a loop that heals as long as it runs
MayHeal_AsLongAsLoopRuns(error, tried, config) ==
    IsSelectorError(error) /\ tried <= config.maxRetries

\* this._isSelectorError(error) && attempts < config.maxRetries
MayHeal(error, tried, config) ==
    IsSelectorError(error) /\ tried < config.maxRetries

\* the best candidates healLocator may select in the document
ClientCandidates ==
    {[selector |-> "internal:role=button", strategy |-> "role"],
     [selector |-> "text=\"Submit\"", strategy |-> "text"]}

\* how healLocator may end: the original selector matches again, no valid
\* candidate, a best candidate, an exception caught inside
HealOutcomes == {"original-works", "no-candidates", "healed", "throws"}

\* HealingAttempt without timestamp, candidates and message
HealingAttempt(originalSelector, success, strategy, finalSelector) ==
    [originalSelector |-> originalSelector, success |-> success,
     strategy |-> strategy, finalSelector |-> finalSelector]

\* setHealingManager(new HealingManager(config)); a run sets its manager
\* once, before the first operation
SetHealingManager(config) ==
    /\ ~manager.created
    /\ withHealing.pc = "idle"
    /\ manager' = [created |-> TRUE, given |-> config.has,
                   config |-> MergeConfig(DefaultHealingConfig, config),
                   attempts |-> <<>>]
    /\ UNCHANGED <<healingLocator, withHealing>>
    /\ UNCHANGED <<wrapperVars, callVars, engineVars, store, events, log, answer,
                   fileKind, codeVars, context, liveVars, procs>>

\* an overridden method (click, fill, ...) calls _withHealing:
\* getHealingManager() creates the default manager if there is none,
\* getConfig() copies its configuration, then operation() is called
StartOperation ==
    /\ withHealing.pc \in {"idle", "done"}
    /\ withHealing.calls < MaxOperations
    /\ manager' = [manager EXCEPT !.created = TRUE]
    /\ withHealing' = [pc |-> "operation", config |-> manager.config,
                       attempts |-> 0, lastError |-> NoClientError,
                       executions |-> 1, heals |-> 0, firstFailed |-> FALSE,
                       outcome |-> "none", calls |-> withHealing.calls + 1]
    /\ UNCHANGED healingLocator
    /\ UNCHANGED <<wrapperVars, callVars, engineVars, store, events, log, answer,
                   fileKind, codeVars, context, liveVars, procs>>

\* operation() resolves: its value is returned
OperationResolves ==
    /\ withHealing.pc = "operation"
    /\ withHealing' = [withHealing EXCEPT !.pc = "done", !.outcome = "returned"]
    /\ UNCHANGED <<manager, healingLocator>>
    /\ UNCHANGED <<wrapperVars, callVars, engineVars, store, events, log, answer,
                   fileKind, codeVars, context, liveVars, procs>>

\* operation() rejects: without healing the error propagates; inside the
\* loop it becomes lastError and either healLocator is called with the
\* original selector or the loop is left and lastError thrown
OperationRejects(error) ==
    /\ withHealing.pc = "operation"
    /\ LET failedOriginal ==
               /\ withHealing.executions = 1
               /\ healingLocator.selector = healingLocator.originalSelector
               /\ IsSelectorError(error)
       IN  withHealing' =
               IF withHealing.config.enabled
                  /\ MayHeal(error, withHealing.attempts, withHealing.config)
               THEN [withHealing EXCEPT !.pc = "healing", !.lastError = error,
                                        !.heals = @ + 1,
                                        !.firstFailed = @ \/ failedOriginal]
               ELSE [withHealing EXCEPT !.pc = "done", !.lastError = error,
                                        !.outcome = "threw",
                                        !.firstFailed = @ \/ failedOriginal]
    /\ UNCHANGED <<manager, healingLocator>>
    /\ UNCHANGED <<wrapperVars, callVars, engineVars, store, events, log, answer,
                   fileKind, codeVars, context, liveVars, procs>>

\* healLocator settles.  A disabled manager and a matching original
\* selector give null without a recorded attempt; no valid candidate and a
\* caught exception record a failed attempt and give null; otherwise the
\* best candidate is recorded and returned.  _withHealing then either takes
\* the selector, counts the attempt and runs the loop again, or leaves the
\* loop and throws lastError.
HealSettles(how, best) ==
    /\ withHealing.pc = "healing"
    /\ LET enabled == manager.config.enabled
           healed == enabled /\ how = "healed"
           attempt == IF healed
                      THEN HealingAttempt(healingLocator.originalSelector, TRUE,
                                          best.strategy, best.selector)
                      ELSE HealingAttempt(healingLocator.originalSelector, FALSE,
                                          "none", Null)
       IN  /\ manager' = [manager EXCEPT !.attempts =
                             IF enabled /\ how # "original-works"
                             THEN Append(@, attempt) ELSE @]
           /\ IF healed
              THEN /\ healingLocator' = [healingLocator EXCEPT
                                     !.selector = best.selector,
                                     !.isHealed = TRUE,
                                     !.healingAttempts = Append(@, attempt)]
                   /\ withHealing' =
                          IF withHealing.attempts + 1 <= withHealing.config.maxRetries
                          THEN [withHealing EXCEPT !.attempts = @ + 1,
                                                   !.pc = "operation",
                                                   !.executions = @ + 1]
                          ELSE [withHealing EXCEPT !.attempts = @ + 1,
                                                   !.pc = "done",
                                                   !.outcome = "threw"]
              ELSE /\ withHealing' = [withHealing EXCEPT !.pc = "done",
                                                         !.outcome = "threw"]
                   /\ UNCHANGED healingLocator
    /\ UNCHANGED <<wrapperVars, callVars, engineVars, store, events, log, answer,
                   fileKind, codeVars, context, liveVars, procs>>

InitLocator ==
    /\ InitWrapper
    /\ InitCall
    /\ epc = "idle"
    /\ InitAttempt
    /\ store = <<>>
    /\ events = <<>>
    /\ InitOther

NextLocator ==
    \/ \E config \in PartialConfigs : SetHealingManager(config)
    \/ StartOperation
    \/ OperationResolves
    \/ \E error \in ClientErrors : OperationRejects(error)
    \/ \E how \in HealOutcomes, best \in ClientCandidates : HealSettles(how, best)

SpecLocator == InitLocator /\ [][NextLocator]_vars


(***************************************************************************)
(* Several processes (test workers, or the store of an engine and the      *)
(* store of a wrapper in different processes) on one storage file.  Within *)
(* a process storeSuggestion runs to its end without an await; between     *)
(* processes the file-system calls interleave.  writeFileSync is taken as  *)
(* one step: a reader never sees a file that is half written.              *)
(***************************************************************************)
Processes == 1..NumProcesses

\* a process outside storeSuggestion
IdleProcess == [pc |-> "idle", suggestions |-> <<>>, calls |-> 0]

\* the record of the n-th call of process p
ProcessSuggestion(p, n) == NthSuggestion((p - 1) * MaxProcCalls + n)

\* storeSuggestion is entered
ProcessCalls(p) ==
    /\ procs[p].pc = "idle"
    /\ procs[p].calls < MaxProcCalls
    /\ procs' = [procs EXCEPT ![p].pc = "load", ![p].calls = @ + 1]
    /\ UNCHANGED store
    /\ UNCHANGED <<wrapperVars, callVars, engineVars, events, log, answer,
                   fileKind, codeVars, context, clientVars, liveVars>>

\* existsSync, readFileSync, JSON.parse: the process holds the list it read
ProcessLoads(p) ==
    /\ procs[p].pc = "load"
    /\ procs' = [procs EXCEPT ![p].pc = "save", ![p].suggestions = store]
    /\ UNCHANGED store
    /\ UNCHANGED <<wrapperVars, callVars, engineVars, events, log, answer,
                   fileKind, codeVars, context, clientVars, liveVars>>

\* push, slice(-100), writeFileSync of the list held; no file-system call
\* throws here
ProcessSaves(p) ==
    /\ procs[p].pc = "save"
    /\ store' = StoreSuggestion(procs[p].suggestions,
                                ProcessSuggestion(p, procs[p].calls), TRUE)
    /\ procs' = [procs EXCEPT ![p].pc = "idle", ![p].suggestions = <<>>]
    /\ UNCHANGED <<wrapperVars, callVars, engineVars, events, log, answer,
                   fileKind, codeVars, context, clientVars, liveVars>>

InitProcesses ==
    /\ InitWrapper
    /\ InitCall
    /\ epc = "idle"
    /\ InitAttempt
    /\ store = <<>>
    /\ events = <<>>
    /\ log = <<>>
    /\ answer = NoAnswer
    /\ fileKind = "array"
    /\ disk = NoDisk
    /\ clock = 1
    /\ context = NoContext
    /\ InitClient
    /\ InitLive
    /\ procs = [p \in Processes |-> IdleProcess]

NextProcesses ==
    \/ \E p \in Processes : ProcessCalls(p)
    \/ \E p \in Processes : ProcessLoads(p)
    \/ \E p \in Processes : ProcessSaves(p)

SpecProcesses == InitProcesses /\ [][NextProcesses]_vars


(***************************************************************************)
(* A wrapper that is configured again while a resolution is in flight:     *)
(* wrapSelectorResolution of src/unnamed/part_004, one action per await,   *)
(* with every read of this.healingEngine, this.config and                  *)
(* this.suggestionStore taken from the wrapper at the moment of the read.  *)
(***************************************************************************)
\* SelfHealingWrapper.configure, at any time
Reconfigure(config) ==
    /\ live.configures < MaxConfigures
    /\ live' = WrapperFields(config, live.configures + 1)
    /\ flight' = [flight EXCEPT !.overtaken =
                     @ \/ flight.pc \notin {"idle", "done"}]
    /\ UNCHANGED <<wrapperVars, callVars, engineVars, store, events, log, answer,
                   fileKind, codeVars, context, clientVars, procs>>

\* wrapSelectorResolution is called: isEnabled() and this.healingEngine are
\* read, then action() is called in either branch
ResolutionStarts ==
    /\ flight.pc = "idle"
    /\ live.configures > 0
    /\ flight' = [NoFlight EXCEPT
                     !.pc = IF live.healingEngine.exists
                               /\ live.healingEngine.config.enabled
                            THEN "action" ELSE "plainAction",
                     !.start = live.config]
    /\ UNCHANGED live
    /\ UNCHANGED <<wrapperVars, callVars, engineVars, store, events, log, answer,
                   fileKind, codeVars, context, clientVars, procs>>

\* action() settles: its value or its error leaves the call, unless the
\* error is a selector error inside the try: then this.attemptHealing reads
\* this.healingEngine and calls attemptHealing on it, or returns a result
\* without success when it is null
ActionSettles(how) ==
    /\ flight.pc \in {"action", "plainAction"}
    /\ flight' =
           IF how = "selector-error" /\ flight.pc = "action"
           THEN [flight EXCEPT !.pc = "healing",
                               !.read = @ \cup {"healingEngine"},
                               !.engineExists = live.healingEngine.exists,
                               !.engine = live.healingEngine.config]
           ELSE [flight EXCEPT !.pc = "done",
                               !.outcome = IF how = "returns" THEN "returned"
                                           ELSE "threw"]
    /\ UNCHANGED live
    /\ UNCHANGED <<wrapperVars, callVars, engineVars, store, events, log, answer,
                   fileKind, codeVars, context, clientVars, procs>>

\* this.attemptHealing settles with the result of the engine that was
\* called: usable results go on to _performQuery
AttemptSettles(found) ==
    /\ flight.pc = "healing"
    /\ LET candidates ==
               IF found
               THEN <<[locator |-> "[data-testid=\"submit-btn\"]",
                       strategy |-> "attribute", score |-> 100]>>
               ELSE <<>>
           result == IF flight.engineExists
                     THEN ApplyHealing(flight.engine, candidates)
                     ELSE Result(FALSE, Null, NoScore,
                                 "Healing engine not initialized", <<>>, FALSE)
       IN  flight' = IF Usable(result)
                     THEN [flight EXCEPT !.pc = "query", !.usable = TRUE]
                     ELSE [flight EXCEPT !.pc = "done", !.outcome = "threw"]
    /\ UNCHANGED live
    /\ UNCHANGED <<wrapperVars, callVars, engineVars, store, events, log, answer,
                   fileKind, codeVars, context, clientVars, procs>>

\* _performQuery settles: for an element the event is built with
\* this.config?.autoApplyThreshold || 90 and recordHealingEvent reads
\* this.suggestionStore before its first await; otherwise the original error
\* is thrown
QuerySettles(how) ==
    /\ flight.pc = "query"
    /\ flight' =
           IF how = "element"
           THEN [flight EXCEPT
                    !.pc = "record",
                    !.read = @ \cup {"autoApplyThreshold", "suggestionStore"},
                    !.threshold = EffectiveThreshold(live.config.autoApplyThreshold),
                    !.storageFile = IF live.suggestionStore.exists
                                    THEN live.suggestionStore.storageFile ELSE ""]
           ELSE [flight EXCEPT !.pc = "done", !.outcome = "threw"]
    /\ UNCHANGED live
    /\ UNCHANGED <<wrapperVars, callVars, engineVars, store, events, log, answer,
                   fileKind, codeVars, context, clientVars, procs>>

\* recordHealingEvent settles: this.config?.notifyOnHeal is read and the
\* healed element returned
RecordSettles ==
    /\ flight.pc = "record"
    /\ flight' = [flight EXCEPT !.pc = "done", !.outcome = "returned",
                                !.read = @ \cup {"notifyOnHeal"},
                                !.notify = live.config.notifyOnHeal]
    /\ UNCHANGED live
    /\ UNCHANGED <<wrapperVars, callVars, engineVars, store, events, log, answer,
                   fileKind, codeVars, context, clientVars, procs>>

InitLiveWrapper ==
    /\ InitWrapper
    /\ InitCall
    /\ epc = "idle"
    /\ InitAttempt
    /\ store = <<>>
    /\ events = <<>>
    /\ InitOther

NextLiveWrapper ==
    \/ \E config \in LiveConfigs : Reconfigure(config)
    \/ ResolutionStarts
    \/ \E how \in {"returns", "selector-error", "other-error"} : ActionSettles(how)
    \/ \E found \in BOOLEAN : AttemptSettles(found)
    \/ \E how \in QueryOutcomes : QuerySettles(how)
    \/ RecordSettles

SpecLiveWrapper == InitLiveWrapper /\ [][NextLiveWrapper]_vars


(***************************************************************************)
(* Properties.                                                             *)
(***************************************************************************)
\* the attempt of the engine has settled
AttemptSettled == caller # "none" /\ epc \in {"returned", "idle"}

\* greatest score of a non-empty scored list
TopScore(list) ==
    CHOOSE m \in {list[i].score : i \in DOMAIN list} :
        \A i \in DOMAIN list : list[i].score <= m

\* the first candidate of the list that has its greatest score
TopCandidate(list) ==
    list[CHOOSE i \in DOMAIN list :
             /\ list[i].score = TopScore(list)
             /\ \A j \in 1..(i - 1) : list[j].score # TopScore(list)]

SameMembers(a, b) ==
    /\ Len(a) = Len(b)
    /\ \A x \in Range(a) \cup Range(b) :
           Cardinality({i \in DOMAIN a : a[i] = x})
               = Cardinality({i \in DOMAIN b : b[i] = x})

C2_EachStepAtMostOnce ==
    /\ actionCalls <= 1
    /\ healCalls <= 1
    /\ validateCalls <= 1
    /\ pc # "idle" => actionCalls = 1
    /\ trace.snapshots <= 1

C2_Witness ==
    pc = "done" /\ actionCalls = 1 /\ healCalls = 1 /\ validateCalls = 1
        /\ queried = "null"

\* C3: when the original action fails with a selector-class error, the
\* engine returns a usable candidate and the re-resolution of the healed
\* locator finds an element, wrapSelectorResolution returns that element
\* (it does not throw) and records one healing event.
C3_ValidatedHealingReturns ==
    (pc = "done" /\ queried = "element") =>
        /\ outcome.kind = "return"
        /\ outcome.value = "healed-element"
        /\ Len(events) = 1

\* C4: whenever healing cannot recover a failed resolution (no usable
\* candidate, or the validating query returns nothing or throws), the error
\* thrown to the caller is the error object of the original action.
C4_OriginalErrorRethrown ==
    (/\ pc = "done"
     /\ healCalls = 1
     /\ \/ ~(healingResult.success /\ healingResult.appliedLocator # Null)
        \/ queried \in {"null", "throws"}) =>
        /\ outcome.kind = "throw"
        /\ outcome.error.id = "original"
        /\ outcome.error = originalError

C4_Witness ==
    /\ pc = "done"
    /\ healCalls = 1
    /\ queried = "throws"
    /\ variant = "selfHealingWrapper.ts"
    /\ outcome.error = originalError

\* the messages of Messages outside the selector-failure taxonomy (element
\* not found, not attached, timeout, multiple match / strict mode)
NonTaxonomyMessages == {MsgProtocol, MsgTargetClosed, NoMessage}

\* C5: when the original action fails with an error outside the taxonomy,
\* an error without message included, wrapSelectorResolution rethrows that
\* error, never invokes the engine or the validating query, and records
\* nothing in the suggestion store or the event list.
C5_OtherErrorsBypassHealing ==
    (originalError.id = "original"
        /\ originalError.message \in NonTaxonomyMessages) =>
        /\ pc = "done"
        /\ outcome = [kind |-> "throw", value |-> Null, error |-> originalError]
        /\ healCalls = 0
        /\ validateCalls = 0
        /\ caller = "none"
        /\ epc = "idle"
        /\ trace = NoTrace
        /\ annotation = NoAnnotation
        /\ store = <<>>
        /\ events = <<>>

C5_Witness ==
    /\ pc = "done"
    /\ IsEnabled
    /\ originalError.id = "original"
    /\ originalError.message = NoMessage
    /\ outcome.kind = "throw"

\* C6: in suggestion-only mode, for any candidate set and any scores, the
\* result has success = false and never applied = true, neither has the
\* persisted record, and the candidate list is still returned.
C6_SuggestionOnlyNeverApplies ==
    (epc = "returned" /\ engine.config.mode = "suggestion-only") =>
        /\ ~eResult.success
        /\ ~eResult.applied
        /\ eResult.appliedLocator = Null
        /\ SameMembers(eResult.candidates, scored)
        /\ \A k \in DOMAIN store : ~store[k].applied /\ ~store[k].result.applied

C6_Witness ==
    /\ epc = "returned"
    /\ engine.config.mode = "suggestion-only"
    /\ engine.config.autoApplyThreshold = 50
    /\ scored # <<>>
    /\ TopScore(scored) = 100
    /\ Len(store) = 1

\* C7: in assisted mode the wrapper neither completes the caller's
\* operation with the healed locator nor records or emits the healing as
\* applied or auto-applied (no approval exists in the code to wait for).
C7_AssistedAwaitsApproval ==
    (owner = "wrapper" /\ wConfig.mode = "assisted") =>
        /\ outcome.value # "healed-element"
        /\ \A k \in DOMAIN events : ~events[k].applied /\ ~events[k].autoApplied
        /\ \A k \in DOMAIN store : ~store[k].applied

\* the test identifier of the attempt matches a pattern of excludeTests
MatchesExcludeTests ==
    /\ eTest.defined
    /\ \E k \in DOMAIN engine.config.excludeTests :
           MatchStarts(engine.config.excludeTests[k], eTest.tokens, 0) # {}

\* C8: if the engine is disabled or the test identifier matches an
\* excludeTests pattern, attemptHealing returns at once with success = false
\* and the respective reason: no snapshot, no evaluator, no scoring, no
\* write to the suggestion store.
C8_DisabledOrExcludedReturnsAtOnce ==
    (caller # "none" /\ (~engine.config.enabled \/ MatchesExcludeTests)) =>
        /\ AttemptSettled
        /\ ~eThrew
        /\ ~eResult.success
        /\ eResult.reason = IF ~engine.config.enabled
                            THEN "Self-healing is disabled"
                            ELSE "Test excluded from self-healing"
        /\ trace = NoTrace
        /\ snapshot = "none"
        /\ groups = <<>>
        /\ scored = <<>>

\* C9: attemptHealing never throws; a failing evaluator, an unscorable
\* candidate, a failed snapshot or a failed store write is skipped and the
\* other evaluators and candidates are still processed; every unsuccessful
\* result carries a reason.
C9_AttemptNeverThrows ==
    /\ ~eThrew
    /\ AttemptSettled =>
        /\ ~eResult.success => eResult.reason # Null
        /\ trace.snapshots = 1 =>
            /\ pending = {}
            /\ trace.invoked = engine.strategies
            /\ trace.storeCalls = 1
            /\ \A i \in DOMAIN groups : \A k \in DOMAIN groups[i] :
                   groups[i][k] \in Range(unique)
            /\ Len(eResult.candidates) = Len(unique) - Cardinality(skipped)
            /\ \A u \in DOMAIN unique \ skipped :
                   \E c \in DOMAIN eResult.candidates :
                       /\ eResult.candidates[c].locator = unique[u].locator
                       /\ eResult.candidates[c].strategy = unique[u].strategy

C9_Witness ==
    /\ AttemptSettled
    /\ snapshot = "unknown"
    /\ failedInside # {}
    /\ skipped # {}
    /\ eResult.candidates # <<>>
    /\ trace.storeCalls = 1
    /\ store = <<>>

Pair(candidate) == <<candidate.locator, candidate.strategy>>

\* C10: deduplication leaves no two candidates with the same (locator,
\* strategy) pair, keeps every pair of the input exactly once, as its first
\* occurrence, and keeps the input order.
C10_DedupKeepsFirstOfEachPair ==
    (epc = "scoring") =>
        LET input == Flat(groups)
            FirstIndex(c) == CHOOSE i \in DOMAIN input :
                                 /\ Pair(input[i]) = Pair(c)
                                 /\ \A j \in 1..(i - 1) : Pair(input[j]) # Pair(c)
        IN  /\ \A i, j \in DOMAIN unique :
                   i # j => Pair(unique[i]) # Pair(unique[j])
            /\ {Pair(unique[i]) : i \in DOMAIN unique}
                   = {Pair(input[i]) : i \in DOMAIN input}
            /\ \A i \in DOMAIN unique : unique[i] = input[FirstIndex(unique[i])]
            /\ \A i, j \in DOMAIN unique :
                   i < j => FirstIndex(unique[i]) < FirstIndex(unique[j])

C10_Witness ==
    /\ epc = "scoring"
    /\ Len(Flat(groups)) = 3
    /\ Len(unique) = 2
    /\ Flat(groups)[1].locator = "a"
    /\ Flat(groups)[1].strategy = "text"
    /\ Flat(groups)[2].locator = "a:text"
    /\ Pair(Flat(groups)[3]) = Pair(Flat(groups)[1])
    /\ Flat(groups)[3].reasoning # Flat(groups)[1].reasoning

\* the candidate's locator matches exactly one element of the document
UniqueMatch(candidate) == MatchCount(candidate.locator) = 1

\* position of the candidate's strategy in the configured strategies
StrategyPriority(candidate) ==
    CHOOSE k \in DOMAIN engine.config.strategies :
        engine.config.strategies[k] = candidate.strategy

\* a is not ranked after b: unique match first, then the higher score, then
\* the strategy configured earlier
RanksNoLater(a, b) ==
    \/ UniqueMatch(a) /\ ~UniqueMatch(b)
    \/ /\ UniqueMatch(a) = UniqueMatch(b)
       /\ \/ a.score > b.score
          \/ a.score = b.score /\ StrategyPriority(a) <= StrategyPriority(b)

\* C11: the candidate list attemptHealing returns follows the ranking order
\* (unique match descending, score descending, configured strategy priority
\* ascending), and the candidate the mode policy applies is its first.
C11_RankingOrder ==
    (AttemptSettled /\ trace.storeCalls = 1) =>
        /\ \A i, j \in DOMAIN eResult.candidates :
               i < j => RanksNoLater(eResult.candidates[i], eResult.candidates[j])
        /\ eResult.appliedLocator # Null =>
               eResult.appliedLocator = eResult.candidates[1].locator


\* the records whose call went through, in the order of the calls
RECURSIVE StoredUpTo(_)
StoredUpTo(n) ==
    IF n = 0 THEN <<>>
    ELSE IF log[n] THEN Append(StoredUpTo(n - 1), NthSuggestion(n))
         ELSE StoredUpTo(n - 1)

\* the records of all calls, in the order of the calls
AllCalled == [i \in DOMAIN log |-> NthSuggestion(i)]

Unreadable == fileKind \in {"corrupt", "non-array"}

\* C13: on a storage file that is corrupt or holds no array, no operation
\* raises an error, loadSuggestions and getRecentSuggestions return the
\* empty list, getStatistics returns zeros, and a storeSuggestion(r) whose
\* file-system calls go through leaves a file that holds exactly r.
C13_UnreadableFileIsEmpty ==
    /\ (Unreadable /\ answer.op # "none") => ~answer.threw
    /\ (Unreadable /\ answer.op \in {"loadSuggestions", "getRecentSuggestions"}) =>
           (answer.kind = "list" /\ answer.value = <<>>)
    /\ (Unreadable /\ answer.op = "getStatistics") =>
           /\ answer.kind = "stats"
           /\ answer.value = [total |-> 0, successful |-> 0, applied |-> 0,
                              averageScore |-> 0]
    /\ (Len(log) = 1 /\ log[1] /\ Len(store) <= 1) =>
           (store = <<NthSuggestion(1)>> /\ fileKind = "array")

\* C14: getStatistics returns total = number of records, successful =
\* number of records whose result.success is true, applied = number of
\* records whose applied flag is true, and averageScore = the arithmetic
\* mean of result.score over all successful records, 0 when there is none
\* (averageScore is held in hundredths).
C14_StatisticsAreCountsAndMean ==
    (answer.op = "getStatistics" /\ fileKind = "array") =>
        LET successful == {i \in DOMAIN store : store[i].result.success}
            total == Sum([i \in DOMAIN store |->
                             IF i \in successful THEN store[i].result.score ELSE 0])
        IN  /\ ~answer.threw
            /\ answer.value.total = Len(store)
            /\ answer.value.successful = Cardinality(successful)
            /\ answer.value.applied = Cardinality({i \in DOMAIN store : store[i].applied})
            /\ IF successful = {} THEN answer.value.averageScore = 0
               ELSE answer.value.averageScore * Cardinality(successful) = total * 100


\* after is before with one occurrence of the original locator, in one
\* line, replaced by the healed locator
OneOccurrenceReplaced(before, after, originalLocator, healedLocator) ==
    \E n \in DOMAIN before :
        \E i \in 1..(Len(before[n]) - Len(originalLocator) + 1) :
            /\ SubSeq(before[n], i, i + Len(originalLocator) - 1) = originalLocator
            /\ after = [before EXCEPT ![n] =
                            SubSeq(before[n], 1, i - 1) \o healedLocator
                                \o SubSeq(before[n], i + Len(originalLocator),
                                          Len(before[n]))]

\* C15: whenever applyHealingToCode returns success, the new content of
\* the file is its previous content with exactly one occurrence of the
\* original locator replaced by the healed locator: same number of lines,
\* every other line identical, and the file has changed.
C15_SuccessReplacesOneOccurrence ==
    \A k \in DOMAIN log :
        log[k].result.success =>
            /\ Len(log[k].after.content) = Len(log[k].before.content)
            /\ log[k].after.content # log[k].before.content
            /\ OneOccurrenceReplaced(log[k].before.content, log[k].after.content,
                                     log[k].options.originalLocator,
                                     log[k].options.healedLocator)

\* a line at most three lines away from the requested one holds the
\* original locator, as containsLocator reads it (any quote character, any
\* amount of white space)
OccursInWindow(call) ==
    \E n \in DOMAIN call.before.content :
        /\ n - call.options.lineNumber <= SearchRange
        /\ call.options.lineNumber - n <= SearchRange
        /\ ContainsLocator(call.before.content[n], call.options.originalLocator)

C17_NoOccurrenceNoWrite ==
    \A k \in DOMAIN log :
        (log[k].before.exists /\ log[k].threw = "none" /\ ~OccursInWindow(log[k])) =>
            /\ log[k].writes = <<>>
            /\ log[k].after = log[k].before

\* C18: with backups enabled, a write of the test file comes after the
\* write of the backup; the backup path returned by a successful
\* modification holds the content the file had before that modification,
\* also after later modifications; and restoreFromBackup with a returned
\* path gives the file that content.
C18_BackupsHoldPreviousContent ==
    /\ \A k \in DOMAIN log :
           (log[k].options.createBackup # "false" /\ log[k].writes # <<>>) =>
               log[k].writes[1] = "backup"
    /\ \A k \in DOMAIN log :
           (log[k].result.success /\ log[k].result.backupFilePath # 0) =>
               /\ log[k].result.backupFilePath \in DOMAIN disk.backups
               /\ disk.backups[log[k].result.backupFilePath] = log[k].before.content
    /\ \A k \in DOMAIN log :
           (/\ answer.op = "restoreFromBackup"
            /\ answer.kind = "true"
            /\ log[k].result.success
            /\ log[k].result.backupFilePath = answer.value[1]) =>
               disk.content = log[k].before.content


\* how often the evaluator of the named strategy was invoked in the attempt
Invocations(name) ==
    Cardinality({i \in DOMAIN trace.invoked : trace.invoked[i] = name})

\* C19: an attempt that runs the strategies invokes, for every strategy
\* name of the configuration (semantic, text, structural, attribute,
\* visual), the evaluator of that strategy exactly once; no configured
\* strategy is without an evaluator.
C19_EveryConfiguredStrategyInvokedOnce ==
    (AttemptSettled /\ trace.storeCalls = 1) =>
        /\ \A name \in Range(engine.config.strategies) :
               name \in Range(engine.strategies)
        /\ \A name \in Range(engine.config.strategies) : Invocations(name) = 1


\* Scenario A: the page holds the button with data-testid="submit-btn" and
\* role="button", the original locator is #submit, mode auto, threshold 85
ScenarioA ==
    /\ context.originalLocator = IdLocator
    /\ context.document = <<SubmitButton>>
    /\ engine.config.mode = "auto"
    /\ engine.config.autoApplyThreshold = 85

\* C20: in Scenario A the result lists a candidate of the semantic
\* strategy for role button with a score of at least 80 and a candidate of
\* the attribute strategy for data-testid submit-btn with a score of at
\* least 90, and the attribute candidate is the one applied.
C20_ScenarioA ==
    (ScenarioA /\ AttemptSettled /\ trace.storeCalls = 1 /\ skipped = {}) =>
        /\ \E i \in DOMAIN eResult.candidates :
               /\ eResult.candidates[i].strategy = "semantic"
               /\ eResult.candidates[i].locator = "page.getByRole('button')"
               /\ eResult.candidates[i].score >= 80
        /\ \E i \in DOMAIN eResult.candidates :
               /\ eResult.candidates[i].strategy = "attribute"
               /\ eResult.candidates[i].locator = "page.getByTestId('submit-btn')"
               /\ eResult.candidates[i].score >= 90
        /\ eResult.applied
        /\ eResult.appliedLocator = "page.getByTestId('submit-btn')"


\* C21: with document, configuration and context unchanged, two invocations
\* of attemptHealing, also consecutive ones on one engine instance, return
\* the same success flag and reason, the same top candidate and the same
\* score.
C21_RepeatedAttemptsAgree ==
    (AttemptSettled /\ log # <<>>) =>
        LET earlier == log[Len(log)]
        IN  /\ eResult.success = earlier.success
            /\ eResult.reason = earlier.reason
            /\ eResult.appliedLocator = earlier.appliedLocator
            /\ eResult.score = earlier.score
            /\ (eResult.candidates = <<>>) = (earlier.candidates = <<>>)
            /\ eResult.candidates # <<>> /\ earlier.candidates # <<>> =>
                   eResult.candidates[1] = earlier.candidates[1]

\* the same, for configurations whose excludeTests patterns carry no g flag
C21_AgreeWithoutGlobalFlag ==
    (\A k \in DOMAIN engine.config.excludeTests :
         ~engine.config.excludeTests[k].global) => C21_RepeatedAttemptsAgree


\* C22: self-healing is opt-in: with no configuration, or one that does not
\* set enabled to true, every entry point performs the original operation
\* exactly once, with no healing, no candidate search and no persisted
\* record; here for the default HealingManager of SelfHealingLocator.
C22_HealingIsOptIn ==
    ~("enabled" \in manager.given /\ manager.config.enabled) =>
        /\ withHealing.heals = 0
        /\ withHealing.executions <= 1
        /\ manager.attempts = <<>>
        /\ ~healingLocator.isHealed

\* the same for SelfHealingWrapper.wrapSelectorResolution and for
\* HealingEngine.attemptHealing of an engine built with enabled false
C22_WrapperAndEngineAreOptIn ==
    /\ (owner = "none" \/ (owner = "wrapper" /\ ~wConfig.enabled)) =>
           /\ healCalls = 0
           /\ actionCalls <= 1
           /\ caller = "none"
           /\ store = <<>>
           /\ events = <<>>
    /\ (owner = "direct" /\ ~engine.config.enabled /\ AttemptSettled) =>
           /\ ~eResult.success
           /\ trace = NoTrace
           /\ store = <<>>

\* C23: whenever a healing succeeds, the strategy field of the HealingResult,
\* of the emitted locator-healed event and of the persisted record is the
\* name of the strategy that produced the candidate whose locator was
\* applied, and the event's score and healedLocator are that candidate's.
C23_StrategyNamesTheProducer ==
    /\ (AttemptSettled /\ ~eThrew /\ eResult.success) =>
           eResult.strategy = eResult.candidates[1].strategy
    /\ events # <<>> =>
           LET best == healingResult.candidates[1]
               event == events[Len(events)]
           IN  /\ event.strategy = best.strategy
               /\ event.score = best.score
               /\ event.healedLocator = best.locator
               /\ \A k \in DOMAIN store :
                      store[k].result.success =>
                          store[k].result.strategy = best.strategy

\* the score and the locator of the event alone
C23_EventCarriesScoreAndLocator ==
    events # <<>> =>
        /\ events[Len(events)].score = healingResult.candidates[1].score
        /\ events[Len(events)].healedLocator = healingResult.candidates[1].locator

\* what the call has read so far is what the configuration active at its
\* start holds
ReadsAreOfStart ==
    /\ "healingEngine" \in flight.read =>
           flight.engineExists /\ flight.engine = flight.start
    /\ "autoApplyThreshold" \in flight.read =>
           flight.threshold = EffectiveThreshold(flight.start.autoApplyThreshold)
    /\ "suggestionStore" \in flight.read =>
           flight.storageFile = flight.start.storageFile
    /\ "notifyOnHeal" \in flight.read =>
           flight.notify = flight.start.notifyOnHeal

\* C24: a configure call that happens while a wrapSelectorResolution call is
\* in flight does not affect that call: it uses throughout the engine, the
\* auto-apply threshold, the notify flag and the suggestion store of the
\* configuration that was active when it started, never a mix.
C24_InFlightCallKeepsItsConfiguration ==
    flight.pc # "idle" => ReadsAreOfStart

\* the same for calls during which configure was not called
C24_UndisturbedCallKeepsItsConfiguration ==
    (flight.pc # "idle" /\ ~flight.overtaken) => ReadsAreOfStart

C26_HealedExactlyWhenCompleted ==
    /\ healingLocator.originalSelector = OriginalSelector
    /\ (withHealing.pc = "done" /\ withHealing.firstFailed) =>
        /\ withHealing.outcome = "returned" =>
               /\ healingLocator.isHealed
               /\ healingLocator.selector # healingLocator.originalSelector
               /\ healingLocator.healingAttempts # <<>>
        /\ withHealing.outcome = "threw" => ~healingLocator.isHealed

\* the part about a completed operation and the original selector alone
C26_CompletedMeansHealed ==
    /\ healingLocator.originalSelector = OriginalSelector
    /\ (withHealing.pc = "done" /\ withHealing.firstFailed
            /\ withHealing.outcome = "returned") =>
        /\ healingLocator.isHealed
        /\ healingLocator.selector # healingLocator.originalSelector
        /\ healingLocator.healingAttempts # <<>>


\* the lines of the search window that hold the original locator
WindowHits(call) ==
    {n \in DOMAIN call.before.content :
        /\ n - call.options.lineNumber <= SearchRange
        /\ call.options.lineNumber - n <= SearchRange
        /\ ContainsLocator(call.before.content[n], call.options.originalLocator)}

\* the hit that is tried first: the nearest to the target line, and of two
\* equally near the one above
FirstHit(call) ==
    LET t == call.options.lineNumber
        Distance(n) == IF n >= t THEN n - t ELSE t - n
    IN  CHOOSE h \in WindowHits(call) :
            \A n \in WindowHits(call) \ {h} :
                \/ Distance(h) < Distance(n)
                \/ Distance(h) = Distance(n) /\ h < n

\* the call rewrote the first hit and no other line
RewroteFirstHit(call) ==
    /\ WindowHits(call) # {}
    /\ call.after.content =
           [call.before.content EXCEPT ![FirstHit(call)] =
               ReplaceLocatorInLine(call.before.content[FirstHit(call)],
                                    call.options.originalLocator,
                                    call.options.healedLocator)]

C29_AppliedRecordOnlyAfterValidation ==
    /\ (\E k \in DOMAIN store : store[k].applied) =>
           \/ caller = "direct"
           \/ queried = "element"
    /\ (pc = "done" /\ outcome.kind = "throw" /\ queried \in {"null", "throws"}) =>
           \A k \in DOMAIN store : ~store[k].applied


\* the calls of storeSuggestion made so far, all of them finished
AllProcessesIdle == \A p \in Processes : procs[p].pc = "idle"

TotalCalls == Sum([p \in Processes |-> procs[p].calls])

\* C30: when several processes call storeSuggestion on one storage file in
\* any interleaving of their read and write steps, no stored record is
\* lost: after n calls in total the collection holds min(n, 100) records,
\* one per call for the most recent calls.
C30_NoRecordLostAcrossProcesses ==
    AllProcessesIdle =>
        /\ Len(store) = Min(TotalCalls, MaxSuggestions)
        /\ TotalCalls <= MaxSuggestions =>
               \A p \in Processes : \A n \in 1..procs[p].calls :
                   ProcessSuggestion(p, n) \in Range(store)

\* the same while one process alone uses the file
C30_NoRecordLostInOneProcess ==
    (\E p \in Processes : \A q \in Processes \ {p} : procs[q].calls = 0) =>
        C30_NoRecordLostAcrossProcesses

=============================================================================
